---- MODULE Spec2Model ----
(***************************************************************************)
(* Model of the Parasite repository's event bus (src/src/core/Events.ts)   *)
(* and game state manager (GameStateManager), of the parasite entity      *)
(* (Parasite.update) and of the two versions of the scene that moves the   *)
(* parasite itself (GameScene.update).                                     *)
(*                                                                         *)
(* The event bus is modelled with an explicit call stack: a frame is one   *)
(* running processQueue() invocation.  A frame is either at the head of    *)
(* its while loop (phase "loop") or inside the callback of the i-th entry  *)
(* of the list its for loop walks (phase "call").  An empty stack is the   *)
(* top-level caller of the bus.  Callbacks are arbitrary code: while one   *)
(* runs it may call any bus method any number of times, then return or     *)
(* throw.                                                                  *)
(***************************************************************************)
EXTENDS Integers, Sequences, FiniteSets, TLC

\* ---------------------------------------------------------------- bounds
MaxEvents == 3      \* events published in one behaviour
MaxSubs == 2        \* subscriptions created in one behaviour

EventTypes == {"A", "B"}
Callbacks == {"f", "g"}

VARIABLES
  subscriptions,  \* EventBus.subscriptions: present event types -> array of EventSubscription
  eventQueue,     \* EventBus.eventQueue: pending events, oldest first
  processing,     \* EventBus.processing
  stack,          \* running processQueue() invocations, innermost last
  nSubs,          \* EventSubscription objects created so far (object identity)
  nEvents,        \* events published so far (enqueue order)
  dispatched,     \* history: dequeued events in order: [id, by]
  leftToCall,     \* history: subscribers found when the last event was dequeued whose
                  \* callbacks have not been entered yet
  fired,          \* history: per subscription id, how often the callback of that
                  \* once-subscription was entered (0 for plain subscriptions)
  wiped,          \* history: ids of the events discarded from the queue by clear()
  subsBar,        \* history: number of subscriptions created when clear() last ran
  lastExit,       \* history: how the last top-level emit() ended: none / return / throw
  aborted,        \* history: a callback exception has unwound a drain
  tokens,         \* per subscription id, the function that on()/once() returned: the
                  \* type and callback it holds, and (history) whether it was called
  lastToken       \* history: the returned function called last, and the number of such calls

tokenVars == <<tokens, lastToken>>

busVars == <<subscriptions, eventQueue, processing, stack, nSubs, nEvents,
             dispatched, leftToCall, fired, wiped, subsBar, lastExit, aborted, tokenVars>>

history == <<dispatched, leftToCall, fired, wiped, subsBar, lastExit, aborted>>

VARIABLES
  parasiteStats,  \* GameStateManager._parasiteStats
  runState,       \* GameStateManager._runState
  persistentState,\* GameStateManager._persistentState
  globalForces,   \* GameStateManager._globalForces: array of {id, x, y}
  isPaused,       \* GameStateManager._isPaused
  isRunActive,    \* GameStateManager._isRunActive
  storage,        \* localStorage item 'parasite_save' ("none": no item)
  lastCall,       \* history: the mutator called last, its argument, _isPaused before it
  emitted,        \* history: event types the last mutator call passed to Events.emit
  payloads,       \* history: the payloads of the events in emitted, in the same order
  levelUps,       \* history: LEVEL_UP events emitted since the run state was last reset
  lastAdded       \* history: per force id, the vector addGlobalForce registered last and
                  \* no later call removed ("none": no such vector)

gsVars == <<parasiteStats, runState, persistentState, globalForces, isPaused, isRunActive,
            storage>>
gsHistory == <<lastCall, emitted, payloads, levelUps, lastAdded>>

gsAll == <<gsVars, gsHistory>>

VARIABLES
  parasite,       \* the Parasite entity: position, velocity, acceleration, age, input
  scene           \* the GameScene: its parasite's position, velocity, input, wall flash

simVars == <<parasite, scene>>

VARIABLES
  cells,          \* SpatialHash.cells: the present cell keys, in insertion order, with their arrays
  ents,           \* two Entity objects: position, velocity, radius, health, active flag
  returned,       \* history: the last call on an entity and what it returned
  objectPool,     \* an ObjectPool: maxSize, pool, activeObjects, and what the factory made
  poolCall        \* history: the last call on the pool

hashVars == <<cells>>
entVars == <<ents, returned>>
poolVars == <<objectPool, poolCall>>
worldVars == <<hashVars, entVars, poolVars>>

vars == <<busVars, gsAll, simVars, worldVars>>

\* ------------------------------------------------------------- helpers
Top == stack[Len(stack)]

\* the caller of a bus method: top-level code, or the callback now running
InCallback == stack # <<>> /\ Top.phase = "call"
CanCall == stack = <<>> \/ InCallback

\* id of the event the running callback handles (0 at top level)
CurrentEvent == IF InCallback THEN Top.ev.id ELSE 0

\* smallest element of a set of indices, 0 (for the source's -1) when empty
First(hits) == IF hits = {} THEN 0 ELSE CHOOSE k \in hits : \A j \in hits : k <= j

\* off: "subs.findIndex((s) => s.callback === callback)"
FindIndex(subs, cb) == First({k \in 1..Len(subs) : subs[k].callback = cb})

\* processQueue: "subs.indexOf(sub)", by object identity
IndexOf(subs, sub) == First({k \in 1..Len(subs) : subs[k].id = sub.id})

\* Array.prototype.splice(index, 1)
Splice(s, i) == SubSeq(s, 1, i - 1) \o SubSeq(s, i + 1, Len(s))

Ids(s) == {s[i].id : i \in 1..Len(s)}

\* Map.has / Map.set / Map.clear on the subscriber table
Has(t) == t \in DOMAIN subscriptions
MapSet(m, t, v) == [x \in DOMAIN m \cup {t} |-> IF x = t THEN v ELSE m[x]]
EmptyMap == [x \in {} |-> <<>>]

NoToken == [id |-> 0, again |-> FALSE, calls |-> 0]

\* ---------------------------------------------------------------- Init
InitBus ==
  /\ subscriptions = EmptyMap
  /\ eventQueue = <<>>
  /\ processing = FALSE
  /\ stack = <<>>
  /\ nSubs = 0
  /\ nEvents = 0
  /\ dispatched = <<>>
  /\ leftToCall = 0
  /\ fired = <<>>
  /\ wiped = {}
  /\ subsBar = 0
  /\ lastExit = "none"
  /\ aborted = FALSE
  /\ tokens = <<>>
  /\ lastToken = NoToken

\* --------------------------------------------------------- subscribing
\* on()/once() share their body: create the array if absent, push a new
\* EventSubscription object.
Subscribe(t, cb, isOnce) ==
  /\ CanCall
  /\ nSubs < MaxSubs
  /\ LET arr == IF Has(t) THEN subscriptions[t] ELSE <<>>
         subscription == [id |-> nSubs + 1, callback |-> cb, once |-> isOnce]
     IN subscriptions' = MapSet(subscriptions, t, Append(arr, subscription))
  /\ nSubs' = nSubs + 1
  /\ fired' = Append(fired, 0)
  /\ tokens' = Append(tokens, [type |-> t, callback |-> cb, called |-> FALSE])
  /\ UNCHANGED lastToken
  /\ UNCHANGED <<eventQueue, processing, stack, nEvents, dispatched, leftToCall, wiped,
                 subsBar, lastExit, aborted, gsAll, simVars, worldVars>>

on(t, cb) == Subscribe(t, cb, FALSE)

once(t, cb) == Subscribe(t, cb, TRUE)

\* off(type, callback): remove the first subscription of that type whose
\* callback is the given function.
Removed(t, cb) ==
  IF ~Has(t) THEN subscriptions
  ELSE LET subs == subscriptions[t]
           index == FindIndex(subs, cb)
       IN IF index # 0 THEN MapSet(subscriptions, t, Splice(subs, index))
          ELSE subscriptions

off(t, cb) ==
  /\ CanCall
  /\ subscriptions' = Removed(t, cb)
  /\ UNCHANGED <<eventQueue, processing, stack, nSubs, nEvents, history, tokenVars, gsAll,
                 simVars, worldVars>>

\* the function that on()/once() returned for subscription id:
\* "() => this.off(type, callback)"
MaxTokenCalls == 3

unsubscribe(id) ==
  /\ CanCall
  /\ lastToken.calls < MaxTokenCalls
  /\ subscriptions' = Removed(tokens[id].type, tokens[id].callback)
  /\ tokens' = [tokens EXCEPT ![id].called = TRUE]
  /\ lastToken' = [id |-> id, again |-> tokens[id].called, calls |-> lastToken.calls + 1]
  /\ UNCHANGED <<eventQueue, processing, stack, nSubs, nEvents, history, gsAll, simVars,
                 worldVars>>

\* ------------------------------------------------------------- emit
NoEvent == [id |-> 0, type |-> "", by |-> 0]
LoopFrame == [phase |-> "loop", ev |-> NoEvent, subsToCall |-> <<>>, i |-> 0,
              live |-> FALSE, called |-> <<>>]

\* mutation: unshift instead of push
PushFront(q, e) == <<e>> \o q

\* "this.eventQueue.push({ type, payload })"
Push(q, e) == Append(q, e)

\* mutation: the processing guard is dropped
AlwaysDrain == TRUE

\* emit(): "if (!this.processing) this.processQueue()"
ShouldDrain == ~processing

\* emit(type, payload): push onto the queue; start processQueue() unless a
\* drain is marked in progress.  processQueue() begins by setting the flag.
emit(t) ==
  /\ CanCall
  /\ nEvents < MaxEvents
  /\ nEvents' = nEvents + 1
  /\ eventQueue' = Push(eventQueue, [id |-> nEvents + 1, type |-> t, by |-> CurrentEvent])
  /\ IF ShouldDrain
     THEN /\ processing' = TRUE
          /\ stack' = Append(stack, LoopFrame)
          /\ UNCHANGED lastExit
     ELSE /\ UNCHANGED <<processing, stack>>
          /\ lastExit' = IF stack = <<>> THEN "return" ELSE lastExit
  /\ UNCHANGED <<subscriptions, nSubs, dispatched, leftToCall, fired, wiped, subsBar,
                 aborted, tokenVars, gsAll, simVars,
                 worldVars>>

\* ----------------------------------------------------- processQueue
AtLoopHead == stack # <<>> /\ Top.phase = "loop"

SetTop(f) == [stack EXCEPT ![Len(stack)] = f]

\* "const event = this.eventQueue.shift()"
NextEvent(q) == Head(q)
RestQueue(q) == Tail(q)

\* "const subs = this.subscriptions.get(event.type)"
SubsFor(t) == IF Has(t) THEN subscriptions[t] ELSE <<>>

\* mutation: the for loop walks the live array instead of a copy
LiveSubs(f) == SubsFor(f.ev.type)

\* the list the for loop walks: "const subsToCall = [...subs]", copied at dequeue
SubsToCall(f) == f.subsToCall

\* entering the callback of sub: record it when it is a once-subscription
Invoke(sub) == IF sub.once THEN [fired EXCEPT ![sub.id] = @ + 1] ELSE fired

\* while-loop iteration: shift the oldest event, look up its subscribers,
\* copy them and enter the first callback (or loop again when there are none).
Dequeue ==
  /\ AtLoopHead
  /\ eventQueue # <<>>
  /\ LET e == NextEvent(eventQueue)
         subs == SubsFor(e.type)
         f == [phase |-> "call", ev |-> e, subsToCall |-> subs, i |-> 1,
               live |-> TRUE, called |-> <<>>]
         list == SubsToCall(f)
     IN /\ eventQueue' = RestQueue(eventQueue)
        /\ dispatched' = Append(dispatched, [id |-> e.id, by |-> e.by])
        /\ leftToCall' = IF list = <<>> THEN Len(subs) ELSE Len(subs) - 1
        /\ IF list = <<>>
           THEN UNCHANGED <<stack, fired>>
           ELSE /\ stack' = SetTop([f EXCEPT !.called = <<list[1].id>>])
                /\ fired' = Invoke(list[1])
  /\ UNCHANGED <<subscriptions, processing, nSubs, nEvents, wiped, subsBar,
                 lastExit, aborted, tokenVars, gsAll, simVars,
                 worldVars>>

\* mutation: once-subscriptions are never removed
NeverRemove(sub) == FALSE

\* "if (sub.once)"
ShouldRemove(sub) == sub.once

\* the running callback returns: drop its subscription if it is a once-
\* subscription (indexOf on the array fetched at dequeue time), then advance
\* the for loop into the next callback, or back to the while loop.
HandlerReturn ==
  /\ InCallback
  /\ LET f == Top
         list == SubsToCall(f)
         sub == list[f.i]
         t == f.ev.type
         index == IF f.live /\ Has(t) THEN IndexOf(subscriptions[t], sub) ELSE 0
         more == f.i < Len(list)
     IN /\ subscriptions' = IF ShouldRemove(sub) /\ index # 0
                            THEN MapSet(subscriptions, t, Splice(subscriptions[t], index))
                            ELSE subscriptions
        /\ IF more
           THEN /\ stack' = SetTop([f EXCEPT !.i = f.i + 1,
                                             !.called = Append(f.called, list[f.i + 1].id)])
                /\ fired' = Invoke(list[f.i + 1])
                /\ leftToCall' = leftToCall - 1
           ELSE /\ stack' = SetTop(LoopFrame)
                /\ UNCHANGED <<fired, leftToCall>>
  /\ UNCHANGED <<eventQueue, processing, nSubs, nEvents, dispatched, wiped, subsBar,
                 lastExit, aborted, tokenVars, gsAll, simVars,
                 worldVars>>

\* the running callback throws: nothing in processQueue() or emit() catches,
\* so the exception unwinds to the top-level caller and the trailing
\* "this.processing = false" is skipped.
HandlerThrow ==
  /\ InCallback
  /\ stack' = <<>>
  /\ lastExit' = "throw"
  /\ aborted' = TRUE
  /\ UNCHANGED <<subscriptions, eventQueue, processing, nSubs, nEvents, dispatched,
                 leftToCall, fired, wiped, subsBar, tokenVars, gsAll, simVars,
                 worldVars>>

\* queue empty at the loop head: "this.processing = false" and return to the
\* emit() that started this drain.
Finish ==
  /\ AtLoopHead
  /\ eventQueue = <<>>
  /\ processing' = FALSE
  /\ stack' = SubSeq(stack, 1, Len(stack) - 1)
  /\ lastExit' = IF Len(stack) = 1 THEN "return" ELSE lastExit
  /\ UNCHANGED <<subscriptions, eventQueue, nSubs, nEvents, dispatched, leftToCall, fired,
                 wiped, subsBar, aborted, tokenVars, gsAll, simVars,
                 worldVars>>

\* ------------------------------------------------------------ clear
\* mutation: clear() forgets the queue
KeptQueue == eventQueue

\* "this.eventQueue = []"
ClearedQueue == <<>>

\* "this.subscriptions.clear()"
ClearedSubscriptions == EmptyMap

\* clear(): empty the subscriber table and replace the queue.  An array held
\* by a running processQueue() is no longer an array of the table.
clear ==
  /\ CanCall
  /\ subscriptions' = ClearedSubscriptions
  /\ eventQueue' = ClearedQueue
  /\ stack' = [k \in 1..Len(stack) |-> [stack[k] EXCEPT !.live = FALSE]]
  /\ wiped' = wiped \cup Ids(eventQueue)
  /\ subsBar' = nSubs
  /\ UNCHANGED <<processing, nSubs, nEvents, dispatched, leftToCall, fired, lastExit,
                 aborted, tokenVars, gsAll, simVars,
                 worldVars>>

\* ====================================================================
\* Event bus properties
\* ====================================================================
DispatchedIds == Ids(dispatched)
PendingIds == Ids(eventQueue)

\* position of event id in the dispatch order (0: not dispatched)
Pos(id) == First({k \in 1..Len(dispatched) : dispatched[k].id = id})
By(id) == dispatched[Pos(id)].by

TableIds == UNION {Ids(subscriptions[t]) : t \in DOMAIN subscriptions}

\* the bus is back at its top-level caller
AtTopLevel == stack = <<>>

\* C1 (as claimed): for events A and B published in that order by top-level
\* code, and C published by a handler of A while handling A, the dispatch
\* order is A, B, C.
C1_OrderABC ==
  \A a \in DispatchedIds, b \in DispatchedIds, c \in DispatchedIds :
    (a < b /\ By(a) = 0 /\ By(b) = 0 /\ By(c) = a)
      => (Pos(a) < Pos(b) /\ Pos(b) < Pos(c))

\* C1 (amended): C, published by a handler of A, is dispatched after every
\* event enqueued before it: with A published before B and B enqueued before
\* C, C is never dequeued while B is pending, and the order is A, B, C.
C1_EnqueueOrder ==
  \A a \in DispatchedIds, c \in DispatchedIds, b \in 1..nEvents :
    (a < b /\ b < c /\ By(c) = a)
      => /\ b \notin PendingIds
         /\ b \in DispatchedIds => (Pos(a) < Pos(b) /\ Pos(b) < Pos(c))

\* C1 witness: A, B, C were dispatched in that order, B enqueued before C and
\* C published while A was handled.
C1_WitnessABC ==
  \E a \in DispatchedIds, b \in DispatchedIds, c \in DispatchedIds :
    a < b /\ b < c /\ By(c) = a /\ Pos(a) < Pos(b) /\ Pos(b) < Pos(c)

\* C2: the drain is one flat loop.  At most one processQueue() runs, so at
\* most one callback runs; an event published by the running callback is not
\* dispatched while the current event's callbacks run; and an event published
\* by a callback is no longer pending once the publish that started the drain
\* has returned (it stays pending only while that drain runs or when that
\* drain was unwound by an exception and never returned).
C2_FlatDrain ==
  /\ Len(stack) <= 1
  /\ InCallback => \A k \in 1..Len(dispatched) : dispatched[k].by # Top.ev.id
  /\ \A k \in 1..Len(eventQueue) :
       eventQueue[k].by # 0 => (~AtTopLevel \/ aborted)

\* C2 witness: a publish returned after an event published by a callback was
\* dispatched within it.
C2_WitnessReentrant ==
  /\ AtTopLevel
  /\ lastExit = "return"
  /\ ~aborted
  /\ \E k \in 1..Len(dispatched) : dispatched[k].by # 0

\* C3 (as claimed): whenever a publish made while no drain is in progress has
\* returned, the queue is empty and the processing flag is false.
C3_DrainedOnReturn ==
  (AtTopLevel /\ lastExit = "return") => (eventQueue = <<>> /\ ~processing)

\* C4: the for loop walks the snapshot taken at dequeue.  The callbacks
\* entered for the in-flight event are, in order, the first entries of that
\* snapshot, whatever the callbacks subscribe or unsubscribe meanwhile, and a
\* dispatch that ran to its end entered every entry of the snapshot.
C4_SnapshotDispatch ==
  /\ InCallback =>
       /\ Len(Top.called) = Top.i
       /\ Top.i <= Len(Top.subsToCall)
       /\ \A k \in 1..Top.i : Top.called[k] = Top.subsToCall[k].id
       /\ leftToCall = Len(Top.subsToCall) - Top.i
  /\ (AtLoopHead \/ (AtTopLevel /\ ~aborted)) => leftToCall = 0

\* C4 witness: during a dispatch the table of the in-flight event's type came
\* to differ from the snapshot (a subscription was added and one removed), and
\* the last entry of the snapshot is running.
C4_WitnessChangedTable ==
  /\ InCallback
  /\ Top.live
  /\ Top.i = Len(Top.subsToCall)
  /\ Ids(SubsFor(Top.ev.type)) \ Ids(Top.subsToCall) # {}
  /\ Ids(Top.subsToCall) \ Ids(SubsFor(Top.ev.type)) # {}

\* once-subscriptions whose callback has been entered
Fired == {id \in 1..nSubs : fired[id] > 0}

\* the once-subscription whose callback is running now
RunningOnce == IF InCallback /\ Top.subsToCall[Top.i].once
               THEN {Top.subsToCall[Top.i].id} ELSE {}

\* C5: a once-subscription's callback is entered for at most one event, and
\* whenever an event can be dequeued next (a drain is running, or one can
\* start) no once-subscription whose callback has been entered is in the
\* subscriber table, except the one running now.
C5_OnceFiresOnce ==
  /\ \A id \in 1..nSubs : fired[id] <= 1
  /\ (~AtTopLevel \/ ~processing) => (Fired \cap TableIds) \subseteq RunningOnce

\* C5 witness: the only subscription ever made was a once-subscription; its
\* callback ran, published an event of its own type and returned; that event
\* is about to be dequeued and finds the array of its type empty.
C5_WitnessRepublish ==
  /\ AtLoopHead
  /\ nSubs = 1
  /\ fired = <<1>>
  /\ eventQueue # <<>>
  /\ Head(eventQueue).by = dispatched[Len(dispatched)].id
  /\ Has(Head(eventQueue).type)
  /\ SubsFor(Head(eventQueue).type) = <<>>

\* C6: no event discarded by clear() is pending or dispatched afterwards, no
\* subscription made before the last clear() is in the table, and an event
\* dequeued after the last clear() invokes only subscriptions made after it.
C6_ClearWipes ==
  /\ wiped \cap (DispatchedIds \cup PendingIds) = {}
  /\ \A id \in TableIds : id > subsBar
  /\ (InCallback /\ Top.live) => \A k \in 1..Len(Top.called) : Top.called[k] > subsBar

\* C6 witness: clear() ran inside a callback with an event pending and a
\* subscriber registered; an event published after it is being handled by a
\* subscription made after it.
C6_WitnessClearInHandler ==
  /\ InCallback
  /\ Top.live
  /\ subsBar > 0
  /\ \E w \in wiped : w < Top.ev.id /\ Top.ev.by # 0

\* C7 (as claimed): a throwing callback does not leave the processing flag
\* set: whenever control is back at the top-level caller the flag is false.
C7_FlagReleased ==
  AtTopLevel => ~processing

\* ====================================================================
\* GameStateManager
\* ====================================================================
\* sizeMultiplier is kept in halves (2 == 1.0), so the amounts passed to
\* grow/shrink are multiples of 0.5 and the arithmetic is exact.  Biomass and
\* the run counters are naturals.  Time stamps (runStartTime, runDuration) are
\* left out: no modelled operation reads them.
MaxSize == 6        \* |sizeMultiplier| explored, in halves
MaxBiomass == 250   \* biomass explored
MaxDna == 80        \* persistent dna explored
MaxCells == 1       \* cellsCleared of the runs that end
MaxKills == 1       \* enemiesKilled of the runs that end

DefaultSize == 2    \* getDefaultParasiteStats: sizeMultiplier: 1
MinSize == 1        \* shrink: Math.max(0.5, ...)
DefaultHealth == 100
DefaultMaxSpeed == 450
DefaultAcceleration == 1200
\* drag: 0.94, in hundredths
DefaultDrag == 94

SizeAmounts == {-2, -1, 1, 3}
BiomassAmounts == {49, 50, 100}
RunSizeAmounts == {1}
RunBiomassAmounts == {100}
EndBiomassAmounts == {49, 150}
Reasons == {"died", "quit"}
Stats == {"sizeMultiplier", "health"}
StatValues == {4, 50}
ForceIds == {"current", "gravity"}
ForceVectors ==
  {[x |-> 600, y |-> 0], [x |-> -600, y |-> 0], [x |-> 0, y |-> 300], [x |-> 0, y |-> -300]}

getDefaultParasiteStats ==
  [maxHealth |-> DefaultHealth, health |-> DefaultHealth, sizeMultiplier |-> DefaultSize,
   acceleration |-> DefaultAcceleration, maxSpeed |-> DefaultMaxSpeed, drag |-> DefaultDrag]

getDefaultRunState ==
  [biomass |-> 0, level |-> 1, evolutionPoints |-> 0, cellsCleared |-> 0,
   foodEaten |-> 0, enemiesKilled |-> 0]

getDefaultPersistentState ==
  [unlockedAbilities |-> <<>>, highestLevel |-> 1, totalCellsCleared |-> 0, dna |-> 0]

\* the payload {} of the events that carry nothing
NoPayload == [empty |-> TRUE]

NoCall ==
  [op |-> "none", amount |-> 0, paused |-> FALSE, was |-> FALSE, reason |-> "",
   replaced |-> 0]
Call(op, amount, paused) ==
  [op |-> op, amount |-> amount, paused |-> paused, was |-> isPaused, reason |-> "",
   replaced |-> 0]

InitState ==
  /\ parasiteStats = getDefaultParasiteStats
  /\ runState = getDefaultRunState
  /\ persistentState = getDefaultPersistentState
  /\ globalForces = <<>>
  /\ isPaused = FALSE
  /\ isRunActive = FALSE
  /\ storage = <<>>
  /\ lastCall = NoCall
  /\ emitted = <<>>
  /\ payloads = <<>>
  /\ levelUps = 0
  /\ lastAdded = <<>>

\* mutation: startRun forgets the stat block
KeptStats == parasiteStats

\* startRun: "this._parasiteStats = this.getDefaultParasiteStats()"
StartStats == getDefaultParasiteStats

\* startRun(): reset run, stats and forces, mark the run active and not paused,
\* emit GAME_STARTED
startRun ==
  /\ runState' = getDefaultRunState
  /\ parasiteStats' = StartStats
  /\ globalForces' = <<>>
  /\ isRunActive' = TRUE
  /\ isPaused' = FALSE
  /\ emitted' = <<"game:started">>
  /\ payloads' = <<NoPayload>>
  /\ levelUps' = 0
  /\ lastAdded' = <<>>
  /\ lastCall' = Call("startRun", 0, FALSE)
  /\ UNCHANGED <<persistentState, storage>>
  /\ UNCHANGED <<busVars, simVars, worldVars>>

\* mutation: the reward counts the biomass only
BiomassOnly(run) == run.biomass \div 10

\* endRun: Math.floor(biomass * 0.1 + cellsCleared * 50 + enemiesKilled * 5),
\* computed in tenths
dnaEarned(run) == (run.biomass + run.cellsCleared * 500 + run.enemiesKilled * 50) \div 10

\* savePersistentState: localStorage.setItem stores the state, or throws and
\* the catch leaves the item as it was
Saved(state) == {<<state>>, storage}

\* endRun(reason), with savePersistentState() inlined
endRun(reason) ==
  /\ persistentState.dna + dnaEarned(runState) <= MaxDna
  /\ isRunActive' = FALSE
  /\ persistentState' =
       [persistentState EXCEPT
          !.dna = @ + dnaEarned(runState),
          !.highestLevel = IF runState.level > @ THEN runState.level ELSE @,
          !.totalCellsCleared = @ + runState.cellsCleared]
  /\ storage' \in Saved(persistentState')
  /\ emitted' = <<"game:over">>
  /\ payloads' = <<[reason |-> reason]>>
  /\ lastCall' = [Call("endRun", 0, FALSE) EXCEPT !.reason = reason]
  /\ UNCHANGED <<parasiteStats, runState, globalForces, isPaused, levelUps, lastAdded>>
  /\ UNCHANGED <<busVars, simVars, worldVars>>

\* What localStorage may hold under 'parasite_save' besides a record that
\* savePersistentState wrote: a text that JSON.parse rejects, a JSON object
\* with one field only, and a JSON object whose fields have values that no
\* save writes.
GarbageItem == [garbage |-> TRUE]
PartialItem == [dna |-> 7]
ImpossibleItem ==
  [unlockedAbilities |-> <<>>, highestLevel |-> 0, totalCellsCleared |-> -3, dna |-> -7]
ForeignItems == {GarbageItem, PartialItem, ImpossibleItem}

\* the store changed from outside the manager (another session, the user):
\* setItem
setItem(item) ==
  /\ storage # <<item>>
  /\ storage' = <<item>>
  /\ UNCHANGED <<parasiteStats, runState, persistentState, globalForces, isPaused,
                 isRunActive, gsHistory>>
  /\ UNCHANGED <<busVars, simVars, worldVars>>

\* the store changed from outside the manager: removeItem
removeItem ==
  /\ storage # <<>>
  /\ storage' = <<>>
  /\ UNCHANGED <<parasiteStats, runState, persistentState, globalForces, isPaused,
                 isRunActive, gsHistory>>
  /\ UNCHANGED <<busVars, simVars, worldVars>>

\* "{ ...this.getDefaultPersistentState(), ...JSON.parse(saved) }"
Spread(defaults, parsed) ==
  [k \in (DOMAIN defaults) \cup (DOMAIN parsed) |->
     IF k \in DOMAIN parsed THEN parsed[k] ELSE defaults[k]]

\* loadPersistentState(): getItem throws (not readable) or returns the item;
\* "if (saved)" skips a missing item; JSON.parse throws on garbage
loadPersistentState(readable) ==
  /\ persistentState' =
       IF ~readable THEN getDefaultPersistentState
       ELSE IF storage = <<>> THEN persistentState
       ELSE IF storage[1] = GarbageItem THEN getDefaultPersistentState
       ELSE Spread(getDefaultPersistentState, storage[1])
  /\ emitted' = <<>>
  /\ payloads' = <<>>
  /\ lastCall' = [Call("loadPersistentState", 0, FALSE) EXCEPT
                    !.reason = IF readable THEN "read" ELSE "unreadable"]
  /\ UNCHANGED <<parasiteStats, runState, globalForces, isPaused, isRunActive, storage,
                 levelUps, lastAdded>>
  /\ UNCHANGED <<busVars, simVars, worldVars>>

\* mutation: the early return is dropped
NeverUnchanged(paused) == FALSE

\* setPaused: "if (this._isPaused === paused) return"
PausedUnchanged(paused) == isPaused = paused

setPaused(paused) ==
  /\ IF PausedUnchanged(paused)
     THEN /\ UNCHANGED isPaused
          /\ emitted' = <<>>
          /\ payloads' = <<>>
     ELSE /\ isPaused' = paused
          /\ emitted' = <<IF paused THEN "game:paused" ELSE "game:resumed">>
          /\ payloads' = <<NoPayload>>
  /\ lastCall' = Call("setPaused", 0, paused)
  /\ UNCHANGED <<parasiteStats, runState, persistentState, globalForces, isRunActive,
                 storage, levelUps, lastAdded>>
  /\ UNCHANGED <<busVars, simVars, worldVars>>

\* 3^n and 2^n, for Math.pow(1.5, n) = 3^n / 2^n
RECURSIVE Pow(_, _)
Pow(b, n) == IF n = 0 THEN 1 ELSE b * Pow(b, n - 1)

\* getLevelThreshold(level): Math.floor(100 * Math.pow(1.5, level - 1))
getLevelThreshold(level) == (100 * Pow(3, level - 1)) \div Pow(2, level - 1)

\* addBiomass: "this.getLevelThreshold(this._runState.level + 1)"
nextLevelThreshold == getLevelThreshold(runState.level + 1)

\* addBiomass(amount), with levelUp() inlined: at most one level per call
addBiomass(amount) ==
  /\ runState.biomass + amount <= MaxBiomass
  /\ LET biomass == runState.biomass + amount
         up == biomass >= nextLevelThreshold
     IN /\ runState' = [runState EXCEPT
                          !.biomass = biomass,
                          !.foodEaten = @ + 1,
                          !.level = IF up THEN @ + 1 ELSE @,
                          !.evolutionPoints = IF up THEN @ + 1 ELSE @]
        /\ emitted' = IF up THEN <<"progression:levelup">> ELSE <<>>
        /\ payloads' = IF up THEN <<[level |-> runState.level + 1]>> ELSE <<>>
        /\ levelUps' = IF up THEN levelUps + 1 ELSE levelUps
  /\ lastCall' = Call("addBiomass", amount, FALSE)
  /\ UNCHANGED <<parasiteStats, persistentState, globalForces, isPaused, isRunActive,
                 storage, lastAdded>>
  /\ UNCHANGED <<busVars, simVars, worldVars>>

\* grow: "this._parasiteStats.sizeMultiplier += amount"
Grown(size, amount) == size + amount

\* Math.max
Max(a, b) == IF a >= b THEN a ELSE b

\* shrink: "Math.max(0.5, this._parasiteStats.sizeMultiplier - amount)"
Shrunk(size, amount) == Max(MinSize, size - amount)

InSizeRange(size) == -MaxSize <= size /\ size <= MaxSize

grow(amount) ==
  /\ InSizeRange(Grown(parasiteStats.sizeMultiplier, amount))
  /\ parasiteStats' = [parasiteStats EXCEPT !.sizeMultiplier = Grown(@, amount)]
  /\ emitted' = <<"parasite:grew">>
  /\ payloads' = <<[oldSize |-> parasiteStats.sizeMultiplier,
                    newSize |-> parasiteStats'.sizeMultiplier]>>
  /\ lastCall' = Call("grow", amount, FALSE)
  /\ UNCHANGED <<runState, persistentState, globalForces, isPaused, isRunActive, storage,
                 levelUps, lastAdded>>
  /\ UNCHANGED <<busVars, simVars, worldVars>>

shrink(amount) ==
  /\ InSizeRange(Shrunk(parasiteStats.sizeMultiplier, amount))
  /\ parasiteStats' = [parasiteStats EXCEPT !.sizeMultiplier = Shrunk(@, amount)]
  /\ emitted' = <<"parasite:shrank">>
  /\ payloads' = <<[oldSize |-> parasiteStats.sizeMultiplier,
                    newSize |-> parasiteStats'.sizeMultiplier]>>
  /\ lastCall' = Call("shrink", amount, FALSE)
  /\ UNCHANGED <<runState, persistentState, globalForces, isPaused, isRunActive, storage,
                 levelUps, lastAdded>>
  /\ UNCHANGED <<busVars, simVars, worldVars>>

\* modifyStat(stat, value): "this._parasiteStats[stat] = value"
modifyStat(stat, value) ==
  /\ parasiteStats' = [parasiteStats EXCEPT ![stat] = value]
  /\ emitted' = <<>>
  /\ payloads' = <<>>
  /\ lastCall' = Call("modifyStat", value, FALSE)
  /\ UNCHANGED <<runState, persistentState, globalForces, isPaused, isRunActive, storage,
                 levelUps, lastAdded>>
  /\ UNCHANGED <<busVars, simVars, worldVars>>

\* mutation: the filter keeps every force
Unfiltered(forces, id) == forces

\* removeGlobalForce: "this._globalForces.filter((f) => f.id !== id)"
Without(forces, id) == SelectSeq(forces, LAMBDA f : f.id # id)

\* the ids of a function's domain other than id
Forget(f, id) == [i \in DOMAIN f \ {id} |-> f[i]]

\* addGlobalForce(id, x, y): removeGlobalForce(id), then push
addGlobalForce(id, v) ==
  /\ globalForces' = Append(Without(globalForces, id), [id |-> id, x |-> v.x, y |-> v.y])
  /\ lastAdded' = [i \in DOMAIN lastAdded \cup {id} |-> IF i = id THEN v ELSE lastAdded[i]]
  /\ emitted' = <<>>
  /\ payloads' = <<>>
  /\ lastCall' = [Call("addGlobalForce", 0, FALSE) EXCEPT
                    !.replaced = Len(globalForces) - Len(Without(globalForces, id))]
  /\ UNCHANGED <<parasiteStats, runState, persistentState, isPaused, isRunActive, storage,
                 levelUps>>
  /\ UNCHANGED <<busVars, simVars, worldVars>>

removeGlobalForce(id) ==
  /\ globalForces' = Without(globalForces, id)
  /\ lastAdded' = Forget(lastAdded, id)
  /\ emitted' = <<>>
  /\ payloads' = <<>>
  /\ lastCall' = Call("removeGlobalForce", 0, FALSE)
  /\ UNCHANGED <<parasiteStats, runState, persistentState, isPaused, isRunActive, storage,
                 levelUps>>
  /\ UNCHANGED <<busVars, simVars, worldVars>>

clearGlobalForces ==
  /\ globalForces' = <<>>
  /\ lastAdded' = <<>>
  /\ emitted' = <<>>
  /\ payloads' = <<>>
  /\ lastCall' = Call("clearGlobalForces", 0, FALSE)
  /\ UNCHANGED <<parasiteStats, runState, persistentState, isPaused, isRunActive, storage,
                 levelUps>>
  /\ UNCHANGED <<busVars, simVars, worldVars>>

\* totalGlobalForce: reduce over the array, starting from {x: 0, y: 0}
RECURSIVE Reduce(_)
Reduce(forces) ==
  IF forces = <<>> THEN [x |-> 0, y |-> 0]
  ELSE LET acc == Reduce(SubSeq(forces, 1, Len(forces) - 1))
           force == forces[Len(forces)]
       IN [x |-> acc.x + force.x, y |-> acc.y + force.y]

totalGlobalForce == Reduce(globalForces)

\* ====================================================================
\* State manager properties
\* ====================================================================
PauseEvent(paused) == IF paused THEN "game:paused" ELSE "game:resumed"

\* C8: a setPaused(p) call made while the flag already is p changes no state
\* of the manager and emits nothing; one that differs sets the flag, emits
\* exactly the matching pause/resume event and changes nothing else.
C8_SetPausedIdempotent ==
  [][lastCall'.op = "setPaused" =>
       IF isPaused = lastCall'.paused
       THEN UNCHANGED gsVars /\ emitted' = <<>>
       ELSE /\ isPaused' = lastCall'.paused
            /\ emitted' = <<PauseEvent(lastCall'.paused)>>
            /\ UNCHANGED <<parasiteStats, runState, persistentState, globalForces,
                           isRunActive, storage>>]_vars

\* C8 witness: setPaused(true) was called while the game was paused.
C8_WitnessRepeatedPause ==
  /\ lastCall.op = "setPaused"
  /\ lastCall.paused
  /\ lastCall.was
  /\ isPaused

\* C9 (as claimed): in a run started at level 1 with biomass 0, no LEVEL_UP
\* has been emitted while biomass is at most 99, and exactly one once biomass
\* has been brought to 100.
C9_LevelUpAt100 ==
  /\ runState.biomass <= 99 => levelUps = 0
  /\ runState.biomass = 100 => levelUps = 1

\* C10 (as claimed): sizeMultiplier never falls below the floor of 0.5.
C10_SizeFloor ==
  parasiteStats.sizeMultiplier >= MinSize

\* the event types the call in progress passes to Events.emit
EmittedNow == {emitted'[i] : i \in 1..Len(emitted')}

\* C11 (as claimed): a step that changes the size multiplier, the level, the
\* paused flag or the run-active flag emits the event of that change
\* (GAME_STARTED counts for everything startRun resets).
C11_ChangeEmits ==
  [][/\ parasiteStats'.sizeMultiplier # parasiteStats.sizeMultiplier
          => EmittedNow \cap {"parasite:grew", "parasite:shrank", "game:started"} # {}
     /\ runState'.level # runState.level
          => EmittedNow \cap {"progression:levelup", "game:started"} # {}
     /\ isPaused' # isPaused
          => EmittedNow \cap {"game:paused", "game:resumed", "game:started"} # {}
     /\ isRunActive' # isRunActive
          => EmittedNow \cap {"game:started", "game:over"} # {}]_vars

\* C12: endRun(reason) marks the run inactive, adds
\* floor(biomass / 10) + 50 * cellsCleared + 5 * enemiesKilled to dna, raises
\* highestLevel to the run's level when that is higher, adds cellsCleared to
\* totalCellsCleared and emits exactly one GAME_OVER carrying the reason.
C12_EndRunRewards ==
  [][lastCall'.op = "endRun" =>
       /\ ~isRunActive'
       /\ persistentState'.dna =
            persistentState.dna + (runState.biomass \div 10)
              + 50 * runState.cellsCleared + 5 * runState.enemiesKilled
       /\ persistentState'.highestLevel = Max(persistentState.highestLevel, runState.level)
       /\ persistentState'.totalCellsCleared =
            persistentState.totalCellsCleared + runState.cellsCleared
       /\ persistentState'.unlockedAbilities = persistentState.unlockedAbilities
       /\ emitted' = <<"game:over">>
       /\ payloads' = <<[reason |-> lastCall'.reason]>>]_vars

\* C12 witness: a run of level 2 with biomass 199, one cell cleared and one
\* enemy killed has ended: 19 + 50 + 5 dna.
C12_WitnessReward ==
  /\ lastCall.op = "endRun"
  /\ lastCall.reason = "died"
  /\ ~isRunActive
  /\ runState.biomass = 199
  /\ runState.level = 2
  /\ runState.cellsCleared = 1
  /\ runState.enemiesKilled = 1
  /\ persistentState = [unlockedAbilities |-> <<>>, highestLevel |-> 2,
                        totalCellsCleared |-> 1, dna |-> 74]

\* C13: startRun, from any state, resets the run counters and the stat block
\* to their defaults (level 1, biomass 0, sizeMultiplier 1, health 100), marks
\* the run active, emits exactly one GAME_STARTED and leaves the persistent
\* state unchanged.
C13_StartRunResets ==
  [][lastCall'.op = "startRun" =>
       /\ runState' = getDefaultRunState
       /\ runState'.level = 1
       /\ runState'.biomass = 0
       /\ parasiteStats' = getDefaultParasiteStats
       /\ parasiteStats'.sizeMultiplier = DefaultSize
       /\ parasiteStats'.health = DefaultHealth
       /\ isRunActive'
       /\ emitted' = <<"game:started">>
       /\ persistentState' = persistentState]_vars

\* C13 witness: startRun was called after a run that reached level 2 ended
\* with 20 dna: the counters are back at their defaults, the totals are kept.
C13_WitnessRestart ==
  /\ lastCall.op = "startRun"
  /\ runState.biomass = 0
  /\ persistentState.highestLevel = 2
  /\ persistentState.dna = 20

RECURSIVE SumOver(_, _)
SumOver(f, axis) ==
  IF DOMAIN f = {} THEN 0
  ELSE LET id == CHOOSE i \in DOMAIN f : TRUE
       IN f[id][axis] + SumOver(Forget(f, id), axis)

\* C14: the force array holds at most one entry per id, the entry of an id is
\* the vector added last for it, and totalGlobalForce is the sum of these
\* vectors.
C14_ForcesById ==
  /\ \A i, j \in 1..Len(globalForces) :
       globalForces[i].id = globalForces[j].id => i = j
  /\ {globalForces[i].id : i \in 1..Len(globalForces)} = DOMAIN lastAdded
  /\ \A i \in 1..Len(globalForces) :
       [x |-> globalForces[i].x, y |-> globalForces[i].y] = lastAdded[globalForces[i].id]
  /\ totalGlobalForce = [x |-> SumOver(lastAdded, "x"), y |-> SumOver(lastAdded, "y")]

\* C14 witness: addGlobalForce replaced the entry of its id while a force of
\* another id was registered.
C14_WitnessReplaced ==
  /\ lastCall.op = "addGlobalForce"
  /\ lastCall.replaced = 1
  /\ Len(globalForces) = 2
  /\ totalGlobalForce = [x |-> 600, y |-> -300]

\* ====================================================================
\* Movement: fixed-point arithmetic
\* ====================================================================
\* The code computes in floating point.  The model keeps every quantity on an
\* integer grid: time in frames of 1000/60 ms (the code's 16.667 ms), velocity
\* in units of 1/VelScale px/s, position in units of 1/PosScale px, so that
\* "position += velocity * (delta / 1000)" is exact.  A product or quotient
\* that leaves the grid is rounded toward zero.
VelScale == 2
PosScale == 120
FlashScale == 1200  \* wallFlashAlpha in units of 1/1200: one frame fades 100
MaxRoot == 46340    \* the largest root of a 32-bit square

MaxTicks == 2       \* update calls in one behaviour

\* CONFIG, src/src/config.ts
WORLD_WIDTH == 3000
WORLD_HEIGHT == 3000
PARASITE_RADIUS == 20
ACCELERATION == 1200
MAX_SPEED == 450
DRAG == 94          \* 0.94, in hundredths
BOUNCE_FACTOR == 4  \* 0.4, in tenths
DEAD_ZONE == 8
WALL_THICKNESS == 8
RampDistance == 150 \* "Math.min(distance / 150, 1)"
FlashSpeed == 50    \* "this.velocity.length() > 50"
FlashAlpha == 960   \* "this.wallFlashAlpha = 0.8"
FlashFade == 100    \* "delta * 0.005" for one frame

\* the constants of the first version of the scene, src/unnamed/part_000
ACCELERATION0 == 800
MAX_SPEED0 == 400
DRAG0 == 92         \* 0.92, in hundredths
bounceFactor0 == 5  \* 0.5, in tenths
DeadZone0 == 5      \* "distance > 5"
RampDistance0 == 200

Frames == {0, 1, 2}
Keys == {[x |-> 0, y |-> 0], [x |-> -1, y |-> 0], [x |-> 1, y |-> 1]}

Vec(a, b) == [x |-> a, y |-> b]
Zero == Vec(0, 0)
Px(a, b) == Vec(a * PosScale, b * PosScale)
PxPerSec(a, b) == Vec(a * VelScale, b * VelScale)

\* Math.abs, the sign, and a quotient rounded toward zero
Abs(a) == IF a >= 0 THEN a ELSE -a
Sign(a) == IF a > 0 THEN 1 ELSE IF a < 0 THEN -1 ELSE 0
Quot(a, b) == Sign(a) * Sign(b) * (Abs(a) \div Abs(b))

\* Math.sqrt, rounded down (Isqrt) and up (Csqrt)
RECURSIVE Bisect(_, _, _)
Bisect(n, lo, hi) ==
  IF lo >= hi THEN lo
  ELSE LET mid == (lo + hi + 1) \div 2
       IN IF mid * mid <= n THEN Bisect(n, mid, hi) ELSE Bisect(n, lo, mid - 1)
Isqrt(n) == Bisect(n, 0, MaxRoot)
Csqrt(n) == IF Isqrt(n) * Isqrt(n) = n THEN Isqrt(n) ELSE Isqrt(n) + 1

\* the squared length of a vector
Length2(v) == v.x * v.x + v.y * v.y

Plus(v, w) == Vec(v.x + w.x, v.y + w.y)

\* velocity gained in k frames under an acceleration of a px/s^2
Gain(a, k) == Quot(a * k * VelScale, 60)

\* keyboard: "(kx / len) * keyAccel * (delta / 1000)" with keyAccel = accel * 0.8
KeyPush(kd, len2, accel, k) ==
  LET push == (Abs(kd) * Gain(accel * 8, k)) \div 10
  IN Sign(kd) * Isqrt((push * push) \div len2)

\* pointer: "dirX * scaledAcceleration * (delta / 1000)" for the offset (dx, dy)
\* to the target in px, with accelerationScale = Math.min(distance / ramp, 1)
PointerPush(d, dx, dy, accel, ramp, k) ==
  IF dx * dx + dy * dy >= ramp * ramp
  THEN Quot(d * accel * k * VelScale, 60 * Csqrt(dx * dx + dy * dy))
  ELSE Quot(d * accel * k * VelScale, 60 * ramp)

\* "velocity += dir * scaledAcceleration * dt" when the target is outside the
\* dead zone
Steered(pos, velocity, target, accel, deadZone, ramp, k) ==
  LET dx == Quot(target.x - pos.x, PosScale)
      dy == Quot(target.y - pos.y, PosScale)
  IN IF dx * dx + dy * dy > deadZone * deadZone
     THEN Vec(velocity.x + PointerPush(dx, dx, dy, accel, ramp, k),
              velocity.y + PointerPush(dy, dx, dy, accel, ramp, k))
     ELSE velocity

\* "velocity *= Math.pow(drag, delta / 16.667)"; a negative delta gives a
\* factor above one
Dragged(v, drag, k) ==
  IF k >= 0
  THEN Vec(Quot(v.x * Pow(drag, k), Pow(100, k)), Quot(v.y * Pow(drag, k), Pow(100, k)))
  ELSE Vec(Quot(v.x * Pow(100, -k), Pow(drag, -k)), Quot(v.y * Pow(100, -k), Pow(drag, -k)))

\* "velocity.normalize().scale(max)": the vector of length max (in velocity
\* units) along v
Rescaled(v, max) ==
  Vec(Quot(v.x * max, Csqrt(Length2(v))), Quot(v.y * max, Csqrt(Length2(v))))

\* "position += velocity * (delta / 1000)"
Moved(pos, velocity, k) == Vec(pos.x + velocity.x * k, pos.y + velocity.y * k)

\* ====================================================================
\* GameScene (src/src/entities/Parasite.ts:304-679) and its first version
\* (src/unnamed/part_000)
\* ====================================================================
\* scene.version tells which of the two GameScene classes is the running
\* scene.  The trail and the other graphics are left out.  History fields:
\* hit (the walls the last enforceBoundaries clamped to), incoming (the
\* velocity that call found) and ticks (update calls so far).
Versions == {"GameScene", "part_000"}

\* "const margin = CONFIG.PARASITE_RADIUS + CONFIG.WALL_THICKNESS / 2"
Margin == (PARASITE_RADIUS * PosScale) + (WALL_THICKNESS * PosScale) \div 2
\* part_000: "const margin = PARASITE_RADIUS"
Margin0 == PARASITE_RADIUS * PosScale

\* create(): the parasite at the centre of the world, at rest
NewScene(version) ==
  [version |-> version,
   x |-> (WORLD_WIDTH * PosScale) \div 2, y |-> (WORLD_HEIGHT * PosScale) \div 2,
   velocity |-> Zero,
   targetPosition |-> Vec((WORLD_WIDTH * PosScale) \div 2, (WORLD_HEIGHT * PosScale) \div 2),
   isPointerActive |-> FALSE, wallFlashAlpha |-> 0,
   hit |-> {}, incoming |-> Zero, ticks |-> 0]

\* handleInput: keyboard, then pointer
handleInput(s, keys, k) ==
  LET keyed == IF keys.x # 0 \/ keys.y # 0
               THEN Vec(s.velocity.x + KeyPush(keys.x, Length2(keys), ACCELERATION, k),
                        s.velocity.y + KeyPush(keys.y, Length2(keys), ACCELERATION, k))
               ELSE s.velocity
  IN IF s.isPointerActive
     THEN Steered(s, keyed, s.targetPosition, ACCELERATION, DEAD_ZONE, RampDistance, k)
     ELSE keyed

\* mutation: the sign of the incoming component is kept
Unflipped(v, bounce) == Quot(v * bounce, 10)

\* "Math.abs(this.velocity.x) * bounceFactor"
Reflect(v, bounce) == Quot(Abs(v) * bounce, 10)

\* mutation: the coordinate is left where it is
NotClamped(coordinate, limit) == coordinate

\* "this.parasite.x = margin"
Clamped(coordinate, limit) == limit

LeftWall(s, margin, bounce) ==
  IF s.x < margin
  THEN [s EXCEPT !.x = Clamped(@, margin), !.velocity.x = Reflect(@, bounce),
                 !.hit = @ \cup {"left"}]
  ELSE s

RightWall(s, margin, bounce) ==
  IF s.x > WORLD_WIDTH * PosScale - margin
  THEN [s EXCEPT !.x = Clamped(@, WORLD_WIDTH * PosScale - margin),
                 !.velocity.x = -Reflect(@, bounce), !.hit = @ \cup {"right"}]
  ELSE s

TopWall(s, margin, bounce) ==
  IF s.y < margin
  THEN [s EXCEPT !.y = Clamped(@, margin), !.velocity.y = Reflect(@, bounce),
                 !.hit = @ \cup {"top"}]
  ELSE s

BottomWall(s, margin, bounce) ==
  IF s.y > WORLD_HEIGHT * PosScale - margin
  THEN [s EXCEPT !.y = Clamped(@, WORLD_HEIGHT * PosScale - margin),
                 !.velocity.y = -Reflect(@, bounce), !.hit = @ \cup {"bottom"}]
  ELSE s

\* the four wall checks, in the order of the code
Walls(s, margin, bounce) ==
  BottomWall(TopWall(RightWall(LeftWall([s EXCEPT !.hit = {}, !.incoming = s.velocity],
                                        margin, bounce), margin, bounce), margin, bounce),
             margin, bounce)

\* "if (hitWall && this.velocity.length() > 50)"
Flashes(s) == s.hit # {} /\ Length2(s.velocity) > (FlashSpeed * VelScale) * (FlashSpeed * VelScale)

\* enforceBoundaries of GameScene: the walls, then the flash and the camera
\* shake; no event is published
enforceBoundaries(s) ==
  LET w == Walls(s, Margin, BOUNCE_FACTOR)
  IN IF Flashes(w) THEN [w EXCEPT !.wallFlashAlpha = FlashAlpha] ELSE w

\* enforceBoundaries of part_000
enforceBoundaries0(s) == Walls(s, Margin0, bounceFactor0)

\* mutation: no speed is slow enough to stop
NeverSlow(speed2) == FALSE

\* "if (speed < 1)", on the square of the speed
VerySlow(speed2) == speed2 < VelScale * VelScale

\* updatePhysics: drag, clamp, zero-snap, position, boundaries
updatePhysics(s, k) ==
  LET dragged == Dragged(s.velocity, DRAG, k)
      speed2 == Length2(dragged)
      clamped == IF speed2 > (MAX_SPEED * VelScale) * (MAX_SPEED * VelScale)
                 THEN Rescaled(dragged, MAX_SPEED * VelScale) ELSE dragged
      velocity == IF VerySlow(speed2) THEN Zero ELSE clamped
      pos == Moved(s, velocity, k)
  IN enforceBoundaries([s EXCEPT !.velocity = velocity, !.x = pos.x, !.y = pos.y])

\* updateVisuals: "if (this.wallFlashAlpha > 0) this.wallFlashAlpha -= delta * 0.005"
updateVisuals(s, k) ==
  IF s.wallFlashAlpha > 0 THEN [s EXCEPT !.wallFlashAlpha = @ - FlashFade * k] ELSE s

\* GameScene.update(time, delta) of src/src/entities/Parasite.ts
GameScene_update(k, keys) ==
  /\ scene.version = "GameScene"
  /\ scene.ticks < MaxTicks
  /\ scene' = [updateVisuals(updatePhysics([scene EXCEPT !.velocity = handleInput(scene, keys, k)],
                                           k), k)
                 EXCEPT !.ticks = @ + 1]
  /\ lastCall' = Call("GameScene.update", k, FALSE)
  /\ emitted' = <<>>
  /\ payloads' = <<>>
  /\ UNCHANGED <<busVars, gsVars, levelUps, lastAdded, parasite, worldVars>>

\* GameScene.update(time, delta) of a scene left alone: no key is down and no
\* pointer steers.  The game loop goes on calling it, so these calls are not
\* counted in ticks.
coast(k) ==
  /\ scene.version = "GameScene"
  /\ ~scene.isPointerActive
  /\ scene' = updateVisuals(updatePhysics([scene EXCEPT !.velocity = handleInput(scene, Zero, k)],
                                          k), k)
  /\ lastCall' = Call("GameScene.update", k, FALSE)
  /\ emitted' = <<>>
  /\ payloads' = <<>>
  /\ UNCHANGED <<busVars, gsVars, levelUps, lastAdded, parasite, worldVars>>

\* GameScene.update(_time, delta) of part_000: the pointer always steers, the
\* drag is applied once per call
GameScene0_update(k) ==
  /\ scene.version = "part_000"
  /\ scene.ticks < MaxTicks
  /\ LET steered == Steered(scene, scene.velocity, scene.targetPosition, ACCELERATION0,
                            DeadZone0, RampDistance0, k)
         dragged == Vec(Quot(steered.x * DRAG0, 100), Quot(steered.y * DRAG0, 100))
         velocity == IF Length2(dragged) > (MAX_SPEED0 * VelScale) * (MAX_SPEED0 * VelScale)
                     THEN Rescaled(dragged, MAX_SPEED0 * VelScale) ELSE dragged
         pos == Moved(scene, velocity, k)
     IN scene' = [enforceBoundaries0([scene EXCEPT !.velocity = velocity, !.x = pos.x,
                                                   !.y = pos.y])
                    EXCEPT !.ticks = @ + 1]
  /\ lastCall' = Call("GameScene.update", k, FALSE)
  /\ emitted' = <<>>
  /\ payloads' = <<>>
  /\ UNCHANGED <<busVars, gsVars, levelUps, lastAdded, parasite, worldVars>>

\* 'pointerdown': the pointer steers toward the world point (part_000 has no
\* isPointerActive: its field stays false)
pointerdown(target) ==
  /\ scene' = [scene EXCEPT !.isPointerActive = (scene.version = "GameScene"),
                            !.targetPosition = target]
  /\ UNCHANGED <<busVars, gsAll, parasite, worldVars>>

\* 'pointermove': "if (pointer.isDown || this.isPointerActive)" (part_000:
\* always)
pointermove(target) ==
  /\ scene.version = "GameScene" => scene.isPointerActive
  /\ scene.targetPosition # target
  /\ scene' = [scene EXCEPT !.targetPosition = target]
  /\ UNCHANGED <<busVars, gsAll, parasite, worldVars>>

\* 'pointerup'
pointerup ==
  /\ scene.version = "GameScene"
  /\ scene.isPointerActive
  /\ scene' = [scene EXCEPT !.isPointerActive = FALSE]
  /\ UNCHANGED <<busVars, gsAll, parasite, worldVars>>

\* ====================================================================
\* ObjectPool (src/src/core/ObjectPool.ts:5-131)
\* ====================================================================
\* The objects that the factory makes are numbered 1, 2, ... in the order of
\* the calls; object 0 is an object made elsewhere.  activeObjects is a Set,
\* kept as the sequence of its elements in insertion order.  History: clean
\* holds the objects that reset was applied to since they were last acquired.
MaxMade == 3

\* the constructor: initialSize calls of the factory fill the pool
NewPool(initialSize, maxSize) ==
  [maxSize |-> maxSize, pool |-> [i \in 1..initialSize |-> i], activeObjects |-> <<>>,
   made |-> initialSize, clean |-> {}]

NoPoolCall == [op |-> "none", obj |-> 0, reset |-> FALSE]

Elements(seq) == {seq[i] : i \in 1..Len(seq)}
\* mutation: the object stays in the set
Kept(seq, obj) == seq

\* "this.activeObjects.delete(obj)"
Remove(seq, obj) == SelectSeq(seq, LAMBDA o : o # obj)

\* "if (this.pool.length < this.maxSize) this.pool.push(obj)"
Pushed(p, obj) == IF Len(p.pool) < p.maxSize THEN Append(p.pool, obj) ELSE p.pool

\* acquire(): pop the pool or call the factory
acquire ==
  /\ objectPool.pool # <<>> \/ objectPool.made < MaxMade
  /\ LET obj == IF objectPool.pool # <<>> THEN objectPool.pool[Len(objectPool.pool)]
                ELSE objectPool.made + 1
     IN /\ objectPool' =
             [objectPool EXCEPT
                !.pool = IF @ # <<>> THEN SubSeq(@, 1, Len(@) - 1) ELSE @,
                !.made = IF objectPool.pool # <<>> THEN @ ELSE @ + 1,
                !.activeObjects = IF obj \in Elements(@) THEN @ ELSE Append(@, obj),
                !.clean = @ \ {obj}]
        /\ poolCall' = [op |-> "acquire", obj |-> obj, reset |-> FALSE]
  /\ UNCHANGED <<busVars, gsAll, simVars, hashVars, entVars>>

\* mutation: every object passes for an active one
AlwaysActive(p, obj) == TRUE

\* "this.activeObjects.has(obj)"
IsActive(p, obj) == obj \in Elements(p.activeObjects)

\* release(obj)
release(obj) ==
  /\ IF ~IsActive(objectPool, obj)
     THEN /\ UNCHANGED objectPool
          /\ poolCall' = [op |-> "release", obj |-> obj, reset |-> FALSE]
     ELSE /\ objectPool' =
               [objectPool EXCEPT !.activeObjects = Remove(@, obj),
                                  !.clean = @ \cup {obj},
                                  !.pool = Pushed(objectPool, obj)]
          /\ poolCall' = [op |-> "release", obj |-> obj, reset |-> TRUE]
  /\ UNCHANGED <<busVars, gsAll, simVars, hashVars, entVars>>

\* the loop of releaseAll over the active objects, in insertion order
RECURSIVE PushedAll(_, _)
PushedAll(p, objs) ==
  IF objs = <<>> THEN p
  ELSE PushedAll([p EXCEPT !.pool = Pushed(p, Head(objs)), !.clean = @ \cup {Head(objs)}],
                 Tail(objs))

\* releaseAll()
releaseAll ==
  /\ objectPool' = [PushedAll(objectPool, objectPool.activeObjects) EXCEPT
                      !.activeObjects = <<>>]
  /\ poolCall' = [op |-> "releaseAll", obj |-> 0, reset |-> objectPool.activeObjects # <<>>]
  /\ UNCHANGED <<busVars, gsAll, simVars, hashVars, entVars>>

\* ====================================================================
\* Entity (src/src/core/ObjectPool.ts:183-326)
\* ====================================================================
\* Health and amounts are whole numbers; positions and radii are in units of
\* 1/EntScale px.  The visual container is left out.
EntScale == 100
EntityIds == {"a", "b"}
EntityRadius == 20 * EntScale
EntityPlaces ==
  [id \in EntityIds |->
     IF id = "a" THEN Vec(100 * EntScale, 100 * EntScale) ELSE Vec(130 * EntScale, 100 * EntScale)]
DamageAmounts == {-5, 0, 30, 150}
HealAmounts == {-5, 0, 20, 150}
\* initHealth(maxHealth, currentHealth?): <<>> is a call without currentHealth
HealthInits == {[maxHealth |-> 100, currentHealth |-> <<>>],
                [maxHealth |-> 100, currentHealth |-> <<40>>]}

\* the fields after the constructor: no health system, active
NewEntity(pos, radius) ==
  [x |-> pos.x, y |-> pos.y, velocity |-> Zero, radius |-> radius,
   health |-> -1, maxHealth |-> -1, active |-> TRUE]

\* a call on entity id with an amount, the health it found and its result
NoReturn == [op |-> "none", id |-> "", amount |-> 0, was |-> 0, value |-> 0]
Return(op, id, amount, value) ==
  [op |-> op, id |-> id, amount |-> amount, was |-> ents[id].health, value |-> value]

Min(a, b) == IF a <= b THEN a ELSE b

\* get hasHealth / get isDead
hasHealth(e) == e.maxHealth > 0
isDead(e) == hasHealth(e) /\ e.health <= 0

\* mutation: the damage asked for, whatever health is left
WholeAmount(e, amount) == IF ~hasHealth(e) \/ amount <= 0 THEN 0 ELSE amount

\* damage(amount): actualDamage
actualDamage(e, amount) ==
  IF ~hasHealth(e) \/ amount <= 0 THEN 0 ELSE Min(e.health, amount)

\* heal(amount): actualHeal
actualHeal(e, amount) ==
  IF ~hasHealth(e) \/ amount <= 0 THEN 0 ELSE Min(e.maxHealth - e.health, amount)

\* initHealth(maxHealth, currentHealth)
initHealth(id, maxHealth, currentHealth) ==
  /\ ents' = [ents EXCEPT ![id].maxHealth = maxHealth,
                          ![id].health = IF currentHealth = <<>> THEN maxHealth
                                         ELSE currentHealth[1]]
  /\ returned' = Return("initHealth", id, maxHealth, 0)
  /\ UNCHANGED <<busVars, gsAll, simVars, hashVars, poolVars>>

\* Entity.damage(amount)
damage(id, amount) ==
  /\ ents' = [ents EXCEPT ![id].health = @ - actualDamage(ents[id], amount)]
  /\ returned' = Return("damage", id, amount, actualDamage(ents[id], amount))
  /\ UNCHANGED <<busVars, gsAll, simVars, hashVars, poolVars>>

\* Entity.heal(amount)
heal(id, amount) ==
  /\ ents' = [ents EXCEPT ![id].health = @ + actualHeal(ents[id], amount)]
  /\ returned' = Return("heal", id, amount, actualHeal(ents[id], amount))
  /\ UNCHANGED <<busVars, gsAll, simVars, hashVars, poolVars>>

\* Entity.destroy()
destroy(id) ==
  /\ ents[id].active
  /\ ents' = [ents EXCEPT ![id].active = FALSE]
  /\ returned' = Return("destroy", id, 0, 0)
  /\ UNCHANGED <<busVars, gsAll, simVars, hashVars, poolVars>>

\* Entity.collidesWith(other): "dist < this.radius + other.radius"
collidesWith(a, b) ==
  /\ a.active
  /\ b.active
  /\ (b.x - a.x) * (b.x - a.x) + (b.y - a.y) * (b.y - a.y)
       < (a.radius + b.radius) * (a.radius + b.radius)

\* ====================================================================
\* Parasite (src/src/entities/Parasite.ts:20-293), an Entity
\* (src/src/core/ObjectPool.ts:183-337)
\* ====================================================================
\* The graphics and the trail are left out.  History fields: keyed (an
\* applyKeyboardInput call was made since the last update) and ticks (update
\* calls so far); the inputs that follow the last update are not explored.
Targets == {Px(0, 0), Px(1500, 1500), Px(2900, 1500)}
Forces == {Vec(60000, 0)}
TickSizeAmounts == {-3}
TickForces == {[x |-> 600, y |-> 0]}

\* new Parasite(x, y): Entity's constructor, then initHealth
NewParasite(pos) ==
  [x |-> pos.x, y |-> pos.y, velocity |-> Zero, acceleration |-> Zero,
   health |-> parasiteStats.health, maxHealth |-> parasiteStats.maxHealth,
   active |-> TRUE, age |-> 0,
   targetPosition |-> Zero, isPointerActive |-> FALSE,
   keyed |-> FALSE, ticks |-> 0,
   damaging |-> 0, hurts |-> <<>>]

\* effectiveAcceleration: acceleration * (1 / sizeMultiplier), the size in
\* halves; a size of zero (an infinite acceleration) is kept out of the inputs
effectiveAcceleration == Quot(parasiteStats.acceleration * 2, parasiteStats.sizeMultiplier)

\* "this.speed > maxSpeed" with maxSpeed = effectiveMaxSpeed =
\* maxSpeed * (1 / Math.sqrt(sizeMultiplier)): Infinity for a size of zero and
\* NaN for a negative size, and then the comparison is false
ExceedsMaxSpeed(v) ==
  /\ parasiteStats.sizeMultiplier > 0
  /\ Length2(v) * parasiteStats.sizeMultiplier
       > 2 * (parasiteStats.maxSpeed * VelScale) * (parasiteStats.maxSpeed * VelScale)

\* "this.velocity.normalize().scale(maxSpeed)" for a positive size
ScaledToMaxSpeed(v) ==
  LET root == Csqrt((Length2(v) * parasiteStats.sizeMultiplier + 1) \div 2)
  IN Vec(Quot(v.x * parasiteStats.maxSpeed * VelScale, root),
         Quot(v.y * parasiteStats.maxSpeed * VelScale, root))

\* setTarget(x, y)
setTarget(target) ==
  /\ parasite.ticks < MaxTicks
  /\ parasite.targetPosition # target
  /\ parasite' = [parasite EXCEPT !.targetPosition = target]
  /\ UNCHANGED <<busVars, gsAll, scene, worldVars>>

\* setPointerActive(active)
setPointerActive(active) ==
  /\ parasite.ticks < MaxTicks
  /\ parasite.isPointerActive # active
  /\ parasite' = [parasite EXCEPT !.isPointerActive = active]
  /\ UNCHANGED <<busVars, gsAll, scene, worldVars>>

\* applyKeyboardInput(dx, dy, delta), called at most once between two updates
applyKeyboardInput(keys, k) ==
  /\ parasite.ticks < MaxTicks
  /\ ~parasite.keyed
  /\ parasite' =
       [parasite EXCEPT
          !.keyed = TRUE,
          !.velocity =
             IF keys.x = 0 /\ keys.y = 0 THEN @
             ELSE Vec(@.x + KeyPush(keys.x, Length2(keys), effectiveAcceleration, k),
                      @.y + KeyPush(keys.y, Length2(keys), effectiveAcceleration, k))]
  /\ UNCHANGED <<busVars, gsAll, scene, worldVars>>

\* Entity.applyForce(x, y), one force between two updates
applyForce(force) ==
  /\ parasite.ticks < MaxTicks
  /\ parasite.acceleration = Zero
  /\ parasite' = [parasite EXCEPT !.acceleration = Plus(@, force)]
  /\ UNCHANGED <<busVars, gsAll, scene, worldVars>>

\* the body of Parasite.update up to "Update position": the entity after a
\* step of k frames under the global force gf
Integrated(e, gf, k) ==
  LET steered == IF e.isPointerActive
                 THEN Steered(e, e.velocity, e.targetPosition, effectiveAcceleration,
                              DEAD_ZONE, RampDistance, k)
                 ELSE e.velocity
      forced == IF gf.x # 0 \/ gf.y # 0
                THEN Vec(steered.x + Gain(gf.x, k), steered.y + Gain(gf.y, k))
                ELSE steered
      accelerated == Vec(forced.x + Gain(e.acceleration.x, k),
                         forced.y + Gain(e.acceleration.y, k))
      dragged == Dragged(accelerated, parasiteStats.drag, k)
      clamped == IF ExceedsMaxSpeed(dragged) THEN ScaledToMaxSpeed(dragged) ELSE dragged
      velocity == IF Length2(clamped) < VelScale * VelScale THEN Zero ELSE clamped
      pos == Moved(e, velocity, k)
  IN [e EXCEPT !.age = @ + k, !.acceleration = Zero, !.velocity = velocity,
               !.x = pos.x, !.y = pos.y]

\* Parasite.update(delta, time): no look at GameState.isPaused, no boundary
\* check, no event; the last statement is GameState.modifyStat('health', ...)
Parasite_update(k) ==
  /\ parasite.ticks < MaxTicks
  /\ parasite' = [Integrated(parasite, totalGlobalForce, k) EXCEPT
                    !.ticks = @ + 1, !.keyed = FALSE]
  /\ parasiteStats' = [parasiteStats EXCEPT !.health = parasite.health]
  /\ lastCall' = Call("Parasite.update", k, FALSE)
  /\ emitted' = <<>>
  /\ payloads' = <<>>
  /\ UNCHANGED <<busVars, runState, persistentState, globalForces, isPaused, isRunActive,
                 storage, levelUps, lastAdded, scene, worldVars>>

\* --------------------------------------------------- Parasite.damage
\* Parasite.damage(amount) calls Events.emit up to twice.  Called while a
\* drain is marked in progress, both emits only push and the call is one
\* step.  Called otherwise, emit(PARASITE_DAMAGED) runs a drain, and the call
\* goes on ("if (this.isDead)") when that emit has returned, or ends there
\* when a callback's exception comes out of it.  History: hurts holds, per
\* call, the health before it, the damage it returned and the ids of the
\* events it published (0: none); damaging is the index in hurts of the call
\* that is inside its first emit (0: none).
MaxHurts == 2
HurtAmounts == {0, 30, 100}
HurtEvents == {"parasite:damaged", "parasite:died"}

Published(t, id) == [id |-> id, type |-> t, by |-> CurrentEvent]

Hurt(was, actual, damagedId, diedId) ==
  [was |-> was, actual |-> actual, damaged |-> damagedId, died |-> diedId]

\* mutation: PARASITE_DIED is emitted whatever health is left
DeadAnyway(e) == TRUE

\* "if (this.isDead)"
DiedNow(e) == isDead(e)

Parasite_damage(amount) ==
  /\ CanCall
  /\ stack = <<>> => parasite.damaging = 0
  /\ Len(parasite.hurts) < MaxHurts
  /\ LET actual == actualDamage(parasite, amount)
         hurt == [parasite EXCEPT !.health = @ - actual]
         dead == DiedNow(hurt)
         id == nEvents + 1
         damagedEvent == Published("parasite:damaged", id)
         diedEvent == Published("parasite:died", id + 1)
     IN IF actual <= 0
        THEN /\ parasite' = [hurt EXCEPT !.hurts = Append(@, Hurt(parasite.health, actual, 0, 0))]
             /\ UNCHANGED <<eventQueue, processing, stack, nEvents, lastExit>>
        ELSE IF ShouldDrain
        THEN /\ eventQueue' = Push(eventQueue, damagedEvent)
             /\ nEvents' = id
             /\ processing' = TRUE
             /\ stack' = Append(stack, LoopFrame)
             /\ parasite' = [hurt EXCEPT
                               !.hurts = Append(@, Hurt(parasite.health, actual, id, 0)),
                               !.damaging = Len(parasite.hurts) + 1]
             /\ UNCHANGED lastExit
        ELSE /\ eventQueue' = IF dead THEN Push(Push(eventQueue, damagedEvent), diedEvent)
                              ELSE Push(eventQueue, damagedEvent)
             /\ nEvents' = IF dead THEN id + 1 ELSE id
             /\ parasite' = [hurt EXCEPT
                               !.hurts = Append(@, Hurt(parasite.health, actual, id,
                                                        IF dead THEN id + 1 ELSE 0))]
             /\ lastExit' = IF stack = <<>> THEN "return" ELSE lastExit
             /\ UNCHANGED <<processing, stack>>
  /\ UNCHANGED <<subscriptions, nSubs, dispatched, leftToCall, fired, wiped, subsBar,
                 aborted, tokenVars, gsAll, scene,
                 worldVars>>

\* emit(PARASITE_DAMAGED) has returned into Parasite.damage:
\* "if (this.isDead) Events.emit(GameEventType.PARASITE_DIED, {})"
Parasite_damageReturn ==
  /\ parasite.damaging # 0
  /\ stack = <<>>
  /\ lastExit = "return"
  /\ LET id == nEvents + 1
     IN IF DiedNow(parasite)
        THEN /\ eventQueue' = Push(eventQueue, Published("parasite:died", id))
             /\ nEvents' = id
             /\ parasite' = [parasite EXCEPT !.hurts[parasite.damaging].died = id,
                                             !.damaging = 0]
             /\ IF ShouldDrain
                THEN /\ processing' = TRUE
                     /\ stack' = Append(stack, LoopFrame)
                ELSE UNCHANGED <<processing, stack>>
        ELSE /\ parasite' = [parasite EXCEPT !.damaging = 0]
             /\ UNCHANGED <<eventQueue, nEvents, processing, stack>>
  /\ UNCHANGED <<subscriptions, nSubs, dispatched, leftToCall, fired, wiped, subsBar,
                 lastExit, aborted, tokenVars, gsAll, scene,
                 worldVars>>

\* a callback's exception has come out of emit(PARASITE_DAMAGED): it leaves
\* Parasite.damage too
Parasite_damageThrow ==
  /\ parasite.damaging # 0
  /\ stack = <<>>
  /\ lastExit = "throw"
  /\ parasite' = [parasite EXCEPT !.damaging = 0]
  /\ UNCHANGED <<busVars, gsAll, scene, worldVars>>

\* ====================================================================
\* Collision detection (src/src/core/Collision.ts:32-67)
\* ====================================================================
\* circleCircle(a, b): "distSq < radiiSum * radiiSum"
circleCircle(a, b) ==
  (b.x - a.x) * (b.x - a.x) + (b.y - a.y) * (b.y - a.y)
    < (a.radius + b.radius) * (a.radius + b.radius)

\* circleCircleDetailed(a, b): collided, overlapX, overlapY (the normal and
\* the penetration are not used by the caller)
NeverApart(a, b) == TRUE

\* "dist >= radiiSum" is the early return
Touching(a, b) == circleCircle(a, b)

circleCircleDetailed(a, b) ==
  LET dx == b.x - a.x
      dy == b.y - a.y
      dist == Isqrt(dx * dx + dy * dy)
      penetration == (a.radius + b.radius) - dist
  IN IF ~Touching(a, b) THEN [collided |-> FALSE, overlapX |-> 0, overlapY |-> 0]
     ELSE [collided |-> TRUE,
           overlapX |-> IF dist > 0 THEN Quot(dx * penetration, dist) ELSE penetration,
           overlapY |-> IF dist > 0 THEN Quot(dy * penetration, dist) ELSE 0]

\* pushRatio, in tenths
PushRatios == {0, 3, 5, 10}

\* mutation: B is pushed by A's share
ShareOfA(pushRatio) == pushRatio

\* "(1 - pushRatio)", in tenths
ShareOfB(pushRatio) == 10 - pushRatio

\* resolveCollision(entityA, entityB, pushRatio) on the two entities
resolveCollision(pushRatio) ==
  LET result == circleCircleDetailed(ents["a"], ents["b"])
  IN /\ ents' = IF ~result.collided THEN ents
                ELSE [ents EXCEPT
                        !["a"].x = @ - Quot(result.overlapX * pushRatio, 10),
                        !["a"].y = @ - Quot(result.overlapY * pushRatio, 10),
                        !["b"].x = @ + Quot(result.overlapX * ShareOfB(pushRatio), 10),
                        !["b"].y = @ + Quot(result.overlapY * ShareOfB(pushRatio), 10)]
     /\ returned' = Return("resolveCollision", "a", pushRatio, 0)
     /\ UNCHANGED <<busVars, gsAll, simVars, hashVars, poolVars>>

\* ====================================================================
\* SpatialHash (src/src/core/Collision.ts:203-312)
\* ====================================================================
\* Coordinates and radii are whole px.  An entity of the hash is a record of
\* its identity, position and radius; an entity is inserted once between two
\* clear() calls, as a rebuild of the partition does.
MaxBodies == 3
cellSize == 100
BodyPlaces == {[x |-> 50, y |-> 50], [x |-> 95, y |-> 50], [x |-> 105, y |-> 50],
               [x |-> -10, y |-> 190]}
BodyRadius == 20
Bodies == {[id |-> id, x |-> p.x, y |-> p.y, radius |-> BodyRadius] :
             id \in 1..MaxBodies, p \in BodyPlaces}

InitWorld ==
  /\ cells = <<>>
  /\ ents = [id \in EntityIds |-> NewEntity(EntityPlaces[id], EntityRadius)]
  /\ returned = NoReturn
  /\ objectPool = NewPool(1, 2)
  /\ poolCall = NoPoolCall

\* the entities in the hash
RECURSIVE Stored(_)
Stored(cs) ==
  IF cs = <<>> THEN {}
  ELSE {Head(cs).list[i] : i \in 1..Len(Head(cs).list)} \cup Stored(Tail(cs))

\* getKey: Math.floor(x / cellSize), Math.floor(y / cellSize)
getKey(x, y) == <<x \div cellSize, y \div cellSize>>

\* "if (!this.cells.has(key)) this.cells.set(key, []); this.cells.get(key)!.push(entity)"
Put(cs, key, e) ==
  IF \E i \in 1..Len(cs) : cs[i].key = key
  THEN [i \in 1..Len(cs) |->
          IF cs[i].key = key THEN [cs[i] EXCEPT !.list = Append(@, e)] ELSE cs[i]]
  ELSE Append(cs, [key |-> key, list |-> <<e>>])

\* "this.cells.get(key)": the array of the cell, none for an absent key
CellAt(cs, key) ==
  IF \E i \in 1..Len(cs) : cs[i].key = key
  THEN (CHOOSE c \in {cs[i] : i \in 1..Len(cs)} : c.key = key).list
  ELSE <<>>

\* the keys of "for (cx = minCx..maxCx) for (cy = minCy..maxCy)", in that order
KeysOfSquare(x, y, radius) ==
  LET minCx == (x - radius) \div cellSize
      maxCx == (x + radius) \div cellSize
      minCy == (y - radius) \div cellSize
      maxCy == (y + radius) \div cellSize
      rows == maxCy - minCy + 1
  IN [i \in 1..((maxCx - minCx + 1) * rows) |->
        <<minCx + ((i - 1) \div rows), minCy + ((i - 1) % rows)>>]

RECURSIVE PutAll(_, _, _)
PutAll(cs, keys, e) ==
  IF keys = <<>> THEN cs ELSE PutAll(Put(cs, Head(keys), e), Tail(keys), e)

\* insert(entity): the cell of the centre only
insert(e) ==
  /\ \A b \in Stored(cells) : b.id # e.id
  /\ cells' = Put(cells, getKey(e.x, e.y), e)
  /\ UNCHANGED <<busVars, gsAll, simVars, entVars, poolVars>>

\* insertWithRadius(entity): every cell of the bounding square
insertWithRadius(e) ==
  /\ \A b \in Stored(cells) : b.id # e.id
  /\ cells' = PutAll(cells, KeysOfSquare(e.x, e.y, e.radius), e)
  /\ UNCHANGED <<busVars, gsAll, simVars, entVars, poolVars>>

\* clear()
hashClear ==
  /\ cells # <<>>
  /\ cells' = <<>>
  /\ UNCHANGED <<busVars, gsAll, simVars, entVars, poolVars>>

\* mutation: no entity counts as seen
NeverSeen(results, e) == FALSE

\* "seen.has(entity)": seen holds the entities of results
Seen(results, e) == \E i \in 1..Len(results) : results[i].id = e.id

\* "for (const entity of cell) if (!seen.has(entity)) { seen.add; results.push }"
RECURSIVE AddUnseen(_, _)
AddUnseen(results, list) ==
  IF list = <<>> THEN results
  ELSE AddUnseen(IF Seen(results, Head(list)) THEN results ELSE Append(results, Head(list)),
                 Tail(list))

RECURSIVE QueryScan(_, _, _)
QueryScan(cs, keys, results) ==
  IF keys = <<>> THEN results
  ELSE QueryScan(cs, Tail(keys), AddUnseen(results, CellAt(cs, Head(keys))))

\* query(x, y, radius)
query(x, y, radius) == QueryScan(cells, KeysOfSquare(x, y, radius), <<>>)

\* `${a}`: the entities define no toString, so every one of them gives the
\* string of Object.prototype.toString
String(e) == "[object Object]"

\* "a < b ? `${a}-${b}` : `${b}-${a}`": the comparison is the one of the two
\* strings, false between equal strings
pairKey(a, b) == <<String(b), String(a)>>

\* the index pairs of "for (i = 0..) for (j = i + 1..)", in that order
RECURSIVE PairsFrom(_, _, _)
PairsFrom(i, j, n) ==
  IF i >= n THEN <<>>
  ELSE IF j > n THEN PairsFrom(i + 1, i + 2, n)
  ELSE <<<<i, j>>>> \o PairsFrom(i, j + 1, n)

\* the two loops over one cell: acc holds pairs and checked
RECURSIVE CellPairs(_, _, _)
CellPairs(list, ij, acc) ==
  IF ij = <<>> THEN acc
  ELSE LET a == list[Head(ij)[1]]
           b == list[Head(ij)[2]]
       IN CellPairs(list, Tail(ij),
                    IF pairKey(a, b) \in acc.checked THEN acc
                    ELSE [pairs |-> Append(acc.pairs, <<a, b>>),
                          checked |-> acc.checked \cup {pairKey(a, b)}])

RECURSIVE AllPairs(_, _)
AllPairs(cs, acc) ==
  IF cs = <<>> THEN acc
  ELSE AllPairs(Tail(cs), CellPairs(Head(cs).list, PairsFrom(1, 2, Len(Head(cs).list)), acc))

\* getPotentialPairs()
getPotentialPairs == AllPairs(cells, [pairs |-> <<>>, checked |-> {}]).pairs

\* ====================================================================
\* Claims about the movement
\* ====================================================================
\* the margin, the bounce factor and the boundary enforcement of a version
MarginOf(version) == IF version = "GameScene" THEN Margin ELSE Margin0
BounceOf(version) == IF version = "GameScene" THEN BOUNCE_FACTOR ELSE bounceFactor0
Enforced(s) == IF s.version = "GameScene" THEN enforceBoundaries(s) ELSE enforceBoundaries0(s)

Inside(s) ==
  /\ MarginOf(s.version) <= s.x
  /\ s.x <= WORLD_WIDTH * PosScale - MarginOf(s.version)
  /\ MarginOf(s.version) <= s.y
  /\ s.y <= WORLD_HEIGHT * PosScale - MarginOf(s.version)

\* positions in and out of the arena, on and beyond the walls
ProbePositions ==
  {Px(-50, 1500), Px(3100, -10), Px(10, 2990), Px(24, 2976), Px(1500, 1500), Px(4000, 4000)}

ScaledBy(out, in, bounce) ==
  /\ 10 * Abs(out) <= bounce * Abs(in)
  /\ bounce * Abs(in) < 10 * (Abs(out) + 1)

\* C18: after a tick, the velocity component perpendicular to a wall that was
\* crossed in it points away from the wall, whereas it came in toward the
\* wall, and its magnitude is the incoming one times the bounce factor; a
\* component whose walls were not crossed is the incoming one.
C18_Bounce ==
  LET in == scene.incoming
      out == scene.velocity
      bounce == BounceOf(scene.version)
  IN /\ "left" \in scene.hit => in.x < 0 /\ out.x >= 0 /\ ScaledBy(out.x, in.x, bounce)
     /\ "right" \in scene.hit => in.x > 0 /\ out.x <= 0 /\ ScaledBy(out.x, in.x, bounce)
     /\ scene.hit \cap {"left", "right"} = {} /\ scene.ticks > 0 => out.x = in.x
     /\ "top" \in scene.hit => in.y < 0 /\ out.y >= 0 /\ ScaledBy(out.y, in.y, bounce)
     /\ "bottom" \in scene.hit => in.y > 0 /\ out.y <= 0 /\ ScaledBy(out.y, in.y, bounce)
     /\ scene.hit \cap {"top", "bottom"} = {} /\ scene.ticks > 0 => out.y = in.y

\* the parasite crossed the left wall on its way up or down: x bounced, y
\* kept
C18_WitnessLeftWall ==
  /\ scene.hit = {"left"}
  /\ scene.incoming.x < 0
  /\ scene.velocity.x > 0
  /\ scene.incoming.y # 0
  /\ scene.velocity.y = scene.incoming.y

\* C19 (as claimed): a tick of the scene with a wall impact whose speed after
\* the bounce exceeds the threshold publishes 'wall:hit'.
C19_WallHitPublished ==
  (/\ scene.version = "GameScene"
   /\ scene.ticks > 0
   /\ Flashes(scene))
    => \E i \in 1..Len(emitted) : emitted[i] = "wall:hit"

\* C15 (as claimed): an update of the parasite made while the run is paused
\* leaves its position, velocity and age unchanged and emits no event.
C15_PausedTickSkipped ==
  [][(isPaused /\ parasite'.ticks # parasite.ticks)
       => /\ parasite'.x = parasite.x
          /\ parasite'.y = parasite.y
          /\ parasite'.velocity = parasite.velocity
          /\ parasite'.age = parasite.age
          /\ emitted' = <<>>]_vars

\* "speed <= effectiveMaxSpeed"; a size of zero has Infinity for its maximum,
\* and a negative size, whose maximum is NaN, is given the largest maximum of
\* the legal sizes, the one of the floor
WithinMaxSpeed(v) ==
  LET size == IF parasiteStats.sizeMultiplier > 0 THEN parasiteStats.sizeMultiplier
              ELSE MinSize
  IN \/ parasiteStats.sizeMultiplier = 0
     \/ Length2(v) * size
          <= 2 * (parasiteStats.maxSpeed * VelScale) * (parasiteStats.maxSpeed * VelScale)

\* C16 (as claimed): when an update of the parasite is over, its speed is at
\* most the effective maximum speed.
C16_SpeedWithinMax ==
  (parasite.ticks > 0 /\ lastCall.op = "Parasite.update") => WithinMaxSpeed(parasite.velocity)

\* two results of an integration agree to the grid of the model: the
\* roundings of two steps move a velocity by 2 units (1 px/s) at most, and a
\* position by 8 units (1/15 px) at most
Agree(a, b) ==
  /\ Abs(a.x - b.x) <= 8
  /\ Abs(a.y - b.y) <= 8
  /\ Abs(a.velocity.x - b.velocity.x) <= 2
  /\ Abs(a.velocity.y - b.velocity.y) <= 2

\* C20 (as claimed): with no input and no force, and away from the walls, one
\* step of two frames leaves the parasite where two steps of one frame leave
\* it, with the same velocity.
C20_StepSplit ==
  LET one == updatePhysics(scene, 2)
      two == updatePhysics(updatePhysics(scene, 1), 1)
  IN (scene.version = "GameScene" /\ one.hit = {} /\ two.hit = {}) => Agree(one, two)

\* C21 (as claimed): an update of the parasite called with a negative delta
\* does not move it, does not increase its speed and does not decrease its
\* age.
C21_NegativeDtClamped ==
  [][(parasite'.ticks # parasite.ticks /\ lastCall'.amount < 0)
       => /\ parasite'.x = parasite.x
          /\ parasite'.y = parasite.y
          /\ Length2(parasite'.velocity) <= Length2(parasite.velocity)
          /\ parasite'.age >= parasite.age]_vars

\* ====================================================================
\* Claims about the spatial hash
\* ====================================================================
\* two entities of the hash are in one cell
ShareCell(a, b) ==
  \E i \in 1..Len(cells) :
    /\ \E j \in 1..Len(cells[i].list) : cells[i].list[j].id = a.id
    /\ \E j \in 1..Len(cells[i].list) : cells[i].list[j].id = b.id

\* the unordered pairs that getPotentialPairs returns
Reported == {{getPotentialPairs[i][1].id, getPotentialPairs[i][2].id} :
               i \in 1..Len(getPotentialPairs)}

\* C22 (as claimed): getPotentialPairs returns the unordered pairs of distinct
\* entities that share a cell, all of them and each one once.
C22_PairsOnce ==
  /\ \A a, b \in Stored(cells) :
       (a.id # b.id /\ ShareCell(a, b)) <=> {a.id, b.id} \in Reported
  /\ \A i, j \in 1..Len(getPotentialPairs) :
       i # j => {getPotentialPairs[i][1].id, getPotentialPairs[i][2].id}
                  # {getPotentialPairs[j][1].id, getPotentialPairs[j][2].id}

\* C23 (as claimed): two entities of the hash whose circles overlap are among
\* the pairs that getPotentialPairs returns.
C23_Sound ==
  \A a, b \in Stored(cells) :
    (a.id # b.id /\ circleCircle(a, b)) => {a.id, b.id} \in Reported

\* the points and radii asked of query
QueryProbes == {[x |-> 100, y |-> 50, radius |-> 30], [x |-> 50, y |-> 50, radius |-> 10],
                [x |-> -10, y |-> 150, radius |-> 100]}

\* the cell of the key has a point in the bounding square of the probe
Overlaps(key, q) ==
  /\ key[1] * cellSize <= q.x + q.radius
  /\ (key[1] + 1) * cellSize > q.x - q.radius
  /\ key[2] * cellSize <= q.y + q.radius
  /\ (key[2] + 1) * cellSize > q.y - q.radius

\* the entities in the cells of the hash that overlap the probe
InReach(q) ==
  {e \in Stored(cells) :
     \E i \in 1..Len(cells) :
       /\ Overlaps(cells[i].key, q)
       /\ \E j \in 1..Len(cells[i].list) : cells[i].list[j] = e}

\* C24: query returns the entities of the cells that overlap the bounding
\* square of the disk, each of them once, and nothing from an empty hash.
C24_QueryOnce ==
  \A q \in QueryProbes :
    LET results == query(q.x, q.y, q.radius)
    IN /\ {results[i] : i \in 1..Len(results)} = InReach(q)
       /\ \A i, j \in 1..Len(results) : i # j => results[i].id # results[j].id
       /\ cells = <<>> => results = <<>>

\* an entity inserted into two cells that the query both visits, next to
\* another entity
C24_WitnessTwoCells ==
  /\ Len(query(100, 50, 30)) = 2
  /\ \E e \in Stored(cells) :
       Cardinality({i \in 1..Len(cells) :
                      /\ Overlaps(cells[i].key, [x |-> 100, y |-> 50, radius |-> 30])
                      /\ \E j \in 1..Len(cells[i].list) : cells[i].list[j] = e}) = 2

\* ====================================================================
\* Claims about the entities
\* ====================================================================
\* the entity of the last call
Called == ents[returned.id]

HealthInRange ==
  \A id \in EntityIds :
    hasHealth(ents[id]) => 0 <= ents[id].health /\ ents[id].health <= ents[id].maxHealth

InvulnerableUntouched ==
  (returned.op \in {"damage", "heal"} /\ ~hasHealth(Called))
    => Called.health = returned.was /\ returned.value = 0

\* C25 (as claimed): 0 <= health <= maxHealth for an entity with a health
\* system, damage returns min(health, amount) whatever the amount, and damage
\* and heal leave an entity without a health system as it was.
C25_ReturnsMin ==
  /\ HealthInRange
  /\ (returned.op = "damage" /\ hasHealth(Called))
       => returned.value = Min(returned.was, returned.amount)
  /\ InvulnerableUntouched

\* C25 (amended): 0 <= health <= maxHealth for an entity with a health system,
\* damage returns min(health, amount) for a positive amount and 0 for any
\* other amount, taking what it returns from the health, and damage and heal
\* leave an entity without a health system as it was.
C25_ReturnsDealt ==
  /\ HealthInRange
  /\ (returned.op = "damage" /\ hasHealth(Called))
       => /\ returned.value = IF returned.amount > 0
                              THEN Min(returned.was, returned.amount) ELSE 0
          /\ Called.health = returned.was - returned.value
  /\ InvulnerableUntouched

\* a damage above the health that is left takes the health to zero
C25_WitnessOverkill ==
  /\ returned.op = "damage"
  /\ returned.amount = 150
  /\ returned.was = 70
  /\ returned.value = 70
  /\ Called.health = 0

\* C26: a resolveCollision call changes nothing but the x and y of the two
\* entities, and nothing at all when their circles do not overlap.
C26_PositionsOnly ==
  [][returned'.op = "resolveCollision"
       => /\ \A id \in EntityIds :
               ents'[id] = [ents[id] EXCEPT !.x = ents'[id].x, !.y = ents'[id].y]
          /\ ~circleCircle(ents["a"], ents["b"]) => ents' = ents
          /\ UNCHANGED <<busVars, gsAll, simVars, hashVars, poolVars>>]_vars

\* an equal push along a slanted normal moved both entities, one of them
\* damaged and the other destroyed before
C26_WitnessPushed ==
  /\ returned.op = "resolveCollision"
  /\ returned.amount = 5
  /\ ents["a"].x = 9700 /\ ents["a"].y = 9600
  /\ ents["b"].x = 12100 /\ ents["b"].y = 12800
  /\ ents["a"].health = 70
  /\ ~ents["b"].active

\* the distance of two entities, and the sum of their radii
Apart(a, b) == Isqrt((b.x - a.x) * (b.x - a.x) + (b.y - a.y) * (b.y - a.y))
RadiiSum(a, b) == a.radius + b.radius

\* both differ by less than one unit of the entities' grid, told in tenths
\* of the distance of the entities
Near(x, y, dist) == Abs(x - y) < 10 * dist

\* C33: resolveCollision on two overlapping entities moves A by
\* -ratio * overlap and B by +(1 - ratio) * overlap, the overlap being the
\* penetration along the normal from A to B, or along (1,0) when both are on
\* the same spot; afterwards their distance is the sum of their radii and
\* circleCircle reports no overlap.
C33_PushedApart ==
  [][(returned'.op = "resolveCollision" /\ circleCircle(ents["a"], ents["b"]))
       => LET a == ents["a"]
              b == ents["b"]
              ratio == returned'.amount
              dist == Apart(a, b)
              penetration == RadiiSum(a, b) - dist
              nx == IF dist > 0 THEN b.x - a.x ELSE 1
              ny == IF dist > 0 THEN b.y - a.y ELSE 0
              len == IF dist > 0 THEN dist ELSE 1
          IN /\ Near(10 * len * (ents'["a"].x - a.x), -(ratio * penetration * nx), len)
             /\ Near(10 * len * (ents'["a"].y - a.y), -(ratio * penetration * ny), len)
             /\ Near(10 * len * (ents'["b"].x - b.x), (10 - ratio) * penetration * nx, len)
             /\ Near(10 * len * (ents'["b"].y - b.y), (10 - ratio) * penetration * ny, len)
             /\ Apart(ents'["a"], ents'["b"]) = RadiiSum(a, b)
             /\ ~circleCircle(ents'["a"], ents'["b"])]_vars

\* two entities on the same spot were separated along (1,0), A pushed by 0.3
\* of the overlap
C33_WitnessSameSpot ==
  /\ returned.op = "resolveCollision"
  /\ returned.amount = 3
  /\ ents["a"].y = ents["b"].y
  /\ ents["a"].x = EntityPlaces["a"].x - 12 * EntScale
  /\ ents["b"].x = EntityPlaces["a"].x + 28 * EntScale

\* C28 (as claimed): damage and heal called on an entity that is not active
\* leave its health as it was, and collidesWith is false when one of the two
\* entities is not active.
C28_InactiveNoOp ==
  /\ (returned.op \in {"damage", "heal"} /\ ~Called.active)
       => Called.health = returned.was /\ returned.value = 0
  /\ \A a, b \in EntityIds :
       (~ents[a].active \/ ~ents[b].active) => ~collidesWith(ents[a], ents[b])

\* C29 (as claimed): after a damage call that brought the health of an entity
\* to zero, its active flag is false.
C29_DeadIsInactive ==
  (/\ returned.op = "damage"
   /\ returned.value > 0
   /\ hasHealth(Called)
   /\ Called.health = 0)
    => ~Called.active

\* ====================================================================
\* Claims about the persistence
\* ====================================================================
\* C27 (as claimed): after a load that found the item missing, unreadable or
\* corrupt the persistent state is the default one, and an endRun emits
\* GAME_OVER whether its save failed or not.
C27_LoadFallsBack ==
  /\ (/\ lastCall.op = "loadPersistentState"
      /\ \/ lastCall.reason = "unreadable"
         \/ storage = <<>>
         \/ storage = <<GarbageItem>>
         \/ storage = <<ImpossibleItem>>)
       => persistentState = getDefaultPersistentState
  /\ lastCall.op = "endRun" => emitted = <<"game:over">>

\* ====================================================================
\* Claims about the order of a tick
\* ====================================================================
\* the seven steps of a tick of k frames in the claimed order, for an entity
\* that no pointer steers: global forces, pending acceleration, drag, clamp
\* to the maximum speed, zero-snap, position, boundaries
InOrder(e, gf, k) ==
  LET forced == Vec(e.velocity.x + Gain(gf.x, k), e.velocity.y + Gain(gf.y, k))
      accelerated == Vec(forced.x + Gain(e.acceleration.x, k),
                         forced.y + Gain(e.acceleration.y, k))
      dragged == Dragged(accelerated, parasiteStats.drag, k)
      clamped == IF ExceedsMaxSpeed(dragged) THEN ScaledToMaxSpeed(dragged) ELSE dragged
      snapped == IF Length2(clamped) < VelScale * VelScale THEN Zero ELSE clamped
      pos == Moved(e, snapped, k)
      placed == Walls([x |-> pos.x, y |-> pos.y, velocity |-> snapped, hit |-> {},
                       incoming |-> Zero], Margin, BOUNCE_FACTOR)
  IN [x |-> placed.x, y |-> placed.y, velocity |-> placed.velocity, acceleration |-> Zero]

\* C31: an update of the entity leaves it where the seven steps, taken in the
\* claimed order, put it, with no pending acceleration.
C31_TickOrder ==
  [][(/\ lastCall'.op = "Parasite.update"
      /\ parasite'.ticks # parasite.ticks
      /\ ~parasite.isPointerActive)
       => LET after == InOrder(parasite, totalGlobalForce, lastCall'.amount)
          IN /\ parasite'.velocity = after.velocity
             /\ parasite'.x = after.x
             /\ parasite'.y = after.y
             /\ parasite'.acceleration = Zero]_vars

\* ====================================================================
\* Claims about the zero-snap
\* ====================================================================
\* where the drifting parasite starts, how fast, and the frames of a tick
CoastPositions == {Px(1500, 1500), Px(24, 1500)}
CoastVelocities == {PxPerSec(-2, 0), PxPerSec(3, 4), PxPerSec(0, 0)}
CoastFrames == {1, 2}

TickOver == lastCall.op = "GameScene.update"

\* slower than 1 px/s and not at rest
Creeping(v) == Length2(v) < VelScale * VelScale /\ v # Zero

AtRest == scene.velocity = Zero

\* left alone, the scene's parasite comes to rest for good and stays where
\* it is
ComesToRest ==
  /\ <>[]AtRest
  /\ [][(AtRest /\ TickOver) => (scene'.x = scene.x /\ scene'.y = scene.y)]_vars

\* C32 (as claimed): when a tick is over a velocity below 1 px/s is exactly
\* (0,0), and without input the parasite comes to rest and stays in place.
C32_SnappedAtTickEnd ==
  /\ [](TickOver => ~Creeping(scene.velocity))
  /\ ComesToRest

\* C32 (amended): when a tick that touched no wall is over a velocity below
\* 1 px/s is exactly (0,0), and without input the parasite comes to rest and
\* stays in place.
C32_SnappedUnlessBounced ==
  /\ []((TickOver /\ scene.hit = {}) => ~Creeping(scene.velocity))
  /\ ComesToRest

\* the parasite has left the place it started from and is at rest
C32_WitnessAtRest ==
  /\ TickOver
  /\ AtRest
  /\ scene.hit = {}
  /\ \A pos \in CoastPositions : scene.x # pos.x

\* ====================================================================
\* Claims about the functions returned by on() and once()
\* ====================================================================
\* an array of subscriptions without the subscription of the given id
Others(subs, id) == SelectSeq(subs, LAMBDA sub : sub.id # id)

\* C39: a call of the function returned for a subscription removes that
\* subscription and no other: every array of the table keeps its other
\* entries, in order and with their once flags, a subscription whose function
\* was called is in no array, and a second call changes nothing.
C39_TokenRemovesItsOwn ==
  [][lastToken'.calls # lastToken.calls =>
       /\ DOMAIN subscriptions' = DOMAIN subscriptions
       /\ \A t \in DOMAIN subscriptions :
            subscriptions'[t] = Others(subscriptions[t], lastToken'.id)
       /\ \A id \in 1..nSubs : tokens'[id].called => id \notin TableIds'
       /\ lastToken'.again => subscriptions' = subscriptions]_vars

\* ====================================================================
\* Claims about the rewards and the levels of a run
\* ====================================================================
\* C36: an endRun call made while no run is active leaves the persistent dna,
\* highestLevel and totalCellsCleared as they were.
C36_RewardOnce ==
  [][(lastCall'.op = "endRun" /\ ~isRunActive) =>
       /\ persistentState'.dna = persistentState.dna
       /\ persistentState'.highestLevel = persistentState.highestLevel
       /\ persistentState'.totalCellsCleared = persistentState.totalCellsCleared]_vars

\* C37: after every addBiomass call the biomass is below the threshold of the
\* next level, a call that raises the level emits exactly one LEVEL_UP that
\* carries the new level, which is the old level plus one, and a call that
\* does not emits none.
C37_LevelFollowsBiomass ==
  [][lastCall'.op = "addBiomass" =>
       /\ runState'.biomass < getLevelThreshold(runState'.level + 1)
       /\ runState'.level \in {runState.level, runState.level + 1}
       /\ IF runState'.level # runState.level
          THEN /\ emitted' = <<"progression:levelup">>
               /\ payloads' = <<[level |-> runState.level + 1]>>
          ELSE emitted' = <<>>]_vars

\* ====================================================================
\* Claims about the object pool
\* ====================================================================
\* the number of places an object has in the available list
Places(p, obj) == Cardinality({i \in 1..Len(p.pool) : p.pool[i] = obj})

\* C30: a release of an object that is not active in the pool leaves the list
\* of available objects and the active set as they were and does not call
\* reset, and no release gives an object a second place in the available list.
C30_MisuseIgnored ==
  [][poolCall'.op = "release"
       => /\ ~IsActive(objectPool, poolCall'.obj)
               => /\ objectPool' = objectPool
                  /\ ~poolCall'.reset
          /\ Places(objectPool', poolCall'.obj) <= 1]_vars

\* an object that was released already, and is available, was released again
C30_WitnessDoubleRelease ==
  /\ poolCall = [op |-> "release", obj |-> poolCall.obj, reset |-> FALSE]
  /\ poolCall.obj > 0
  /\ Places(objectPool, poolCall.obj) = 1

\* C34: the number of available objects never exceeds maxSize, whatever the
\* pool was constructed with and whatever was acquired and released.
C34_WithinMaxSize == Len(objectPool.pool) <= objectPool.maxSize

NoDuplicates(seq) == \A i, j \in 1..Len(seq) : seq[i] = seq[j] => i = j

\* C35: after every call the available list and the active set are disjoint,
\* the available list has no duplicates, acquire returns an object that was
\* not active, and an object that came back to the available list has had
\* reset applied since it was acquired.
C35_PoolConsistent ==
  [][/\ Elements(objectPool'.pool) \cap Elements(objectPool'.activeObjects) = {}
     /\ NoDuplicates(objectPool'.pool)
     /\ poolCall'.op = "acquire" => ~IsActive(objectPool, poolCall'.obj)
     /\ \A obj \in Elements(objectPool'.pool) \ Elements(objectPool.pool) :
          obj \in objectPool'.clean]_vars

\* an acquired object is back in the available list while another is in use
C35_WitnessReturned ==
  /\ poolCall.op = "release"
  /\ poolCall.reset
  /\ poolCall.obj \in Elements(objectPool.pool)
  /\ objectPool.activeObjects # <<>>

\* ====================================================================
\* Claims about the events of Parasite.damage
\* ====================================================================
\* no call is running: the bus is back at its top-level caller and no
\* damage() call is waiting for its first emit
Quiet == stack = <<>> /\ parasite.damaging = 0

DiedIds == {parasite.hurts[i].died : i \in 1..Len(parasite.hurts)} \ {0}

Lethal(h) == h.was > 0 /\ h.actual = h.was

\* C38: once all calls have returned, for every damage call that took the
\* health from a positive value to zero the PARASITE_DAMAGED event of that
\* call has been dispatched and exactly one PARASITE_DIED event has been
\* dispatched, after it; a damage call that dealt no damage published no event.
C38_DamagedThenDied ==
  \A i \in 1..Len(parasite.hurts) :
    LET h == parasite.hurts[i]
    IN /\ (Quiet /\ Lethal(h)) =>
            /\ h.damaged \in DispatchedIds
            /\ Cardinality(DiedIds) = 1
            /\ \A id \in DiedIds : id \in DispatchedIds /\ Pos(id) > Pos(h.damaged)
       /\ h.actual = 0 => h.damaged = 0 /\ h.died = 0

\* ====================================================================
\* Specifications
\* ====================================================================
\* the entity and the scene after construction, at the centre of the world
InitSim ==
  /\ parasite = NewParasite(Px(WORLD_WIDTH \div 2, WORLD_HEIGHT \div 2))
  /\ scene = NewScene("GameScene")
  /\ InitWorld

Init == InitBus /\ InitState /\ InitSim

\* The names of event types and of callbacks are interchangeable, so the first
\* type a caller passes to the bus is called "A" and the first callback "f".
TypesToUse == IF nSubs = 0 /\ nEvents = 0 THEN {"A"} ELSE EventTypes
CallbacksToUse == IF nSubs = 0 THEN {"f"} ELSE Callbacks

NextBus ==
  \/ \E t \in TypesToUse, cb \in CallbacksToUse : on(t, cb)
  \/ \E t \in TypesToUse, cb \in CallbacksToUse : once(t, cb)
  \/ \E t \in TypesToUse, cb \in CallbacksToUse : off(t, cb)
  \/ \E t \in TypesToUse : emit(t)
  \/ Dequeue
  \/ HandlerReturn
  \/ HandlerThrow
  \/ Finish
  \/ clear

\* the event bus under arbitrary callers and callbacks
Spec == Init /\ [][NextBus]_vars

NextState ==
  \/ startRun
  \/ \E paused \in BOOLEAN : setPaused(paused)
  \/ \E amount \in BiomassAmounts : addBiomass(amount)
  \/ \E amount \in SizeAmounts : grow(amount)
  \/ \E amount \in SizeAmounts : shrink(amount)

\* the state manager under arbitrary callers; no subscriber is registered, so
\* every Events.emit leaves the bus as it found it
SpecState == Init /\ [][NextState]_vars

\* every mutator of the state manager that emits or changes a stat, with few
\* amounts
NextRun ==
  \/ startRun
  \/ \E reason \in Reasons : endRun(reason)
  \/ \E paused \in BOOLEAN : setPaused(paused)
  \/ \E amount \in RunBiomassAmounts : addBiomass(amount)
  \/ \E amount \in RunSizeAmounts : grow(amount)
  \/ \E amount \in RunSizeAmounts : shrink(amount)
  \/ \E stat \in Stats, value \in StatValues : modifyStat(stat, value)

SpecRun == Init /\ [][NextRun]_vars

\* endRun is a function of the run counters.  No operation of the manager
\* writes cellsCleared or enemiesKilled (the systems that clear cells and kill
\* enemies do), so the runs that end are drawn with these counters set.
InitRun ==
  /\ InitBus
  /\ parasiteStats = getDefaultParasiteStats
  /\ runState \in {[getDefaultRunState EXCEPT !.cellsCleared = c, !.enemiesKilled = e] :
                     c \in 0..MaxCells, e \in 0..MaxKills}
  /\ persistentState = getDefaultPersistentState
  /\ globalForces = <<>>
  /\ isPaused = FALSE
  /\ isRunActive = TRUE
  /\ storage = <<>>
  /\ lastCall = NoCall
  /\ emitted = <<>>
  /\ payloads = <<>>
  /\ levelUps = 0
  /\ lastAdded = <<>>
  /\ InitSim

NextEndRun ==
  \/ startRun
  \/ \E amount \in EndBiomassAmounts : addBiomass(amount)
  \/ \E reason \in Reasons : endRun(reason)

SpecEndRun == InitRun /\ [][NextEndRun]_vars

NextForces ==
  \/ \E id \in ForceIds, v \in ForceVectors : addGlobalForce(id, v)
  \/ \E id \in ForceIds : removeGlobalForce(id)
  \/ clearGlobalForces
  \/ startRun

SpecForces == Init /\ [][NextForces]_vars

\* A scene in play: one of the two versions, its parasite steered to the
\* middle of the world, next to the left wall or into the bottom right corner,
\* at rest or on its way to the wall below the speed limit.
StartPositions == {Px(1500, 1500), Px(30, 1500), Px(2975, 2975)}
StartVelocities == {PxPerSec(0, 0), PxPerSec(-380, 100), PxPerSec(280, 280)}

InitPlay ==
  /\ InitBus
  /\ InitState
  /\ InitWorld
  /\ parasite = NewParasite(Px(WORLD_WIDTH \div 2, WORLD_HEIGHT \div 2))
  /\ scene \in {[NewScene(version) EXCEPT !.x = pos.x, !.y = pos.y, !.velocity = v] :
                  version \in Versions, pos \in StartPositions, v \in StartVelocities}

NextScene ==
  \/ \E k \in Frames, keys \in Keys : GameScene_update(k, keys)
  \/ \E k \in Frames : GameScene0_update(k)
  \/ \E target \in Targets : pointermove(target)
  \/ \E target \in Targets : pointerdown(target)
  \/ pointerup

SpecScene == InitPlay /\ [][NextScene]_vars

NextParasite ==
  \/ \E k \in {1, 2} : Parasite_update(k)
  \/ setTarget(Px(2900, 1500))
  \/ setPointerActive(TRUE)
  \/ applyKeyboardInput([x |-> -1, y |-> 1], 1)
  \/ \E force \in Forces : applyForce(force)
  \/ setPaused(TRUE)
  \/ \E amount \in TickSizeAmounts : grow(amount)
  \/ \E v \in TickForces : addGlobalForce("current", v)

\* the entity under the calls of a scene and the state manager under its
\* callers
SpecParasite == Init /\ [][NextParasite]_vars

\* the entity under updates whose delta may be negative
Deltas == {-1, 0, 1}

NextTick ==
  \/ \E k \in Deltas : Parasite_update(k)
  \/ \E target \in Targets : setTarget(target)
  \/ \E active \in BOOLEAN : setPointerActive(active)
  \/ \E k \in Deltas : applyKeyboardInput([x |-> -1, y |-> 1], k)
  \/ \E force \in Forces : applyForce(force)

SpecTick == Init /\ [][NextTick]_vars

\* the spatial hash under rebuilds
NextHash ==
  \/ \E e \in Bodies : insert(e)
  \/ \E e \in Bodies : insertWithRadius(e)
  \/ hashClear

SpecHash == Init /\ [][NextHash]_vars

\* the entities under the calls of their owners
NextEntity ==
  \/ \E id \in EntityIds, h \in HealthInits : initHealth(id, h.maxHealth, h.currentHealth)
  \/ \E id \in EntityIds, amount \in DamageAmounts : damage(id, amount)
  \/ \E id \in EntityIds, amount \in HealAmounts : heal(id, amount)
  \/ \E id \in EntityIds : destroy(id)

SpecEntity == Init /\ [][NextEntity]_vars

\* two entities placed apart, in touch along an axis or a slanted line, or on
\* the same spot
PairPlaces ==
  {Vec(150 * EntScale, 100 * EntScale), Vec(130 * EntScale, 100 * EntScale),
   Vec(118 * EntScale, 124 * EntScale), Vec(100 * EntScale, 100 * EntScale)}

InitPair ==
  /\ InitBus
  /\ InitState
  /\ parasite = NewParasite(Px(WORLD_WIDTH \div 2, WORLD_HEIGHT \div 2))
  /\ scene = NewScene("GameScene")
  /\ cells = <<>>
  /\ ents \in {[id \in EntityIds |->
                  NewEntity(IF id = "a" THEN EntityPlaces["a"] ELSE place, EntityRadius)] :
                 place \in PairPlaces}
  /\ returned = NoReturn
  /\ objectPool = NewPool(1, 2)
  /\ poolCall = NoPoolCall

NextCollide ==
  \/ \E pushRatio \in PushRatios : resolveCollision(pushRatio)
  \/ \E id \in EntityIds : initHealth(id, 100, <<>>)
  \/ \E id \in EntityIds : damage(id, 30)
  \/ \E id \in EntityIds : destroy(id)

SpecCollide == InitPair /\ [][NextCollide]_vars

\* the manager and the store under runs, loads and changes of the store from
\* outside
NextPersist ==
  \/ startRun
  \/ \E amount \in RunBiomassAmounts : addBiomass(amount)
  \/ \E reason \in Reasons : endRun(reason)
  \/ \E readable \in BOOLEAN : loadPersistentState(readable)
  \/ \E item \in ForeignItems : setItem(item)
  \/ removeItem

SpecPersist == Init /\ [][NextPersist]_vars

\* pools of several sizes under their users
PoolSizes == {[initialSize |-> 0, maxSize |-> 1], [initialSize |-> 1, maxSize |-> 2],
              [initialSize |-> 2, maxSize |-> 2], [initialSize |-> 2, maxSize |-> 1]}

InitPool ==
  /\ InitBus
  /\ InitState
  /\ parasite = NewParasite(Px(WORLD_WIDTH \div 2, WORLD_HEIGHT \div 2))
  /\ scene = NewScene("GameScene")
  /\ cells = <<>>
  /\ ents = [id \in EntityIds |-> NewEntity(EntityPlaces[id], EntityRadius)]
  /\ returned = NoReturn
  /\ objectPool \in {NewPool(size.initialSize, size.maxSize) : size \in PoolSizes}
  /\ poolCall = NoPoolCall

NextPool ==
  \/ acquire
  \/ \E obj \in 0..MaxMade : release(obj)
  \/ releaseAll

SpecPool == InitPool /\ [][NextPool]_vars

\* Parasite.damage called by top-level code and by callbacks, with
\* subscribers of its two events that return or throw
NextDamage ==
  \/ \E t \in HurtEvents : Quiet /\ on(t, "f")
  \/ \E amount \in HurtAmounts : Parasite_damage(amount)
  \/ Parasite_damageReturn
  \/ Parasite_damageThrow
  \/ Dequeue
  \/ HandlerReturn
  \/ HandlerThrow
  \/ Finish

SpecDamage == Init /\ [][NextDamage]_vars

\* subscribers that keep the function on()/once() returned and call it, from
\* top-level code or from a callback
TokenTypes == {"A"}

NextToken ==
  \/ \E t \in TokenTypes, cb \in Callbacks : on(t, cb)
  \/ \E t \in TokenTypes, cb \in Callbacks : once(t, cb)
  \/ \E id \in 1..nSubs : unsubscribe(id)
  \/ \E t \in TokenTypes : emit(t)
  \/ Dequeue
  \/ HandlerReturn
  \/ Finish

SpecToken == Init /\ [][NextToken]_vars

\* the entity at rest or moving, in the middle of the arena or next to a wall,
\* under forces and updates
InitOrder ==
  /\ InitBus
  /\ InitState
  /\ InitWorld
  /\ parasite \in {[NewParasite(pos) EXCEPT !.velocity = v] :
                     pos \in StartPositions, v \in StartVelocities}
  /\ scene = NewScene("GameScene")

NextOrder ==
  \/ \E k \in {1, 2} : Parasite_update(k)
  \/ \E force \in Forces : applyForce(force)
  \/ \E v \in TickForces : addGlobalForce("current", v)

SpecOrder == InitOrder /\ [][NextOrder]_vars

\* a scene left alone: the parasite drifts from the middle of the arena or
\* from a wall, slowly or fast, and the game loop keeps calling update
InitCoast ==
  /\ InitBus
  /\ InitState
  /\ InitWorld
  /\ parasite = NewParasite(Px(WORLD_WIDTH \div 2, WORLD_HEIGHT \div 2))
  /\ scene \in {[NewScene("GameScene") EXCEPT !.x = pos.x, !.y = pos.y, !.velocity = v] :
                  pos \in CoastPositions, v \in CoastVelocities}

NextCoast == \E k \in CoastFrames : coast(k)

SpecCoast == InitCoast /\ [][NextCoast]_vars /\ WF_vars(NextCoast)

====
